---------------------------- MODULE Spec2Model ----------------------------
(***************************************************************************)
(* Model of the ecs_complete example of pevi_editor                        *)
(* (src/examples/ecs_complete): the component store as the program uses    *)
(* it, start-up in main(), the per-frame systems, the observers, prefab     *)
(* instantiation and file ingestion.                                       *)
(*                                                                         *)
(* Number conventions.  Coordinates, radii and matrix translations are     *)
(* stored in units of 1/2 (1.5f is 3, 0.5f is 1, 200.0f is 400), so that   *)
(* every float the program writes is an integer here; font sizes are in    *)
(* units of 1/10; camera angles are in units of 1/2 degree.  A C string is *)
(* the sequence of its characters without the terminating NUL.             *)
(***************************************************************************)
EXTENDS Integers, Sequences, FiniteSets, TLC

VARIABLES
    world,      \* ecs_world_t *world: entities, components, tags, pairs
    pc,         \* position of main(): next start-up call, or "frame"
    ran,        \* systems that already ran in the current ecs_progress
    input,      \* raylib input state polled for the current frame
    now,        \* time(NULL)
    fs,         \* the file system seen by stat() and fopen()
    drawn,      \* entities for which TextRenderSystem issued a draw this frame
    scenario    \* which family of external events this run exercises

vars == <<world, pc, ran, input, now, fs, drawn, scenario>>

---------------------------------------------------------------------------
(* Bounds of the model (not program constants).                            *)

MaxLines == 3         \* lines per file in the ingestion specification
MaxPicks == 2         \* accepted pointer presses per run
MaxMissing == 1       \* project files that cannot be opened in a run
MaxLoads == 2         \* LoadFileAsPhantoms calls in the ingestion specification
MaxTime == 4          \* the clock stops advancing here
MaxTouches == 1       \* project files rewritten during a run
MouseStep == 400      \* mouse movement of one drag; large enough for the clamp
WheelStep == 50       \* wheel movement of one frame; large enough for the clamp
MaxYaw == 500         \* drags to the right stop beyond this yaw
MaxPan == 1           \* pans stop beyond this target.x
PanSweep == 800       \* the displacement of one long pan, from target.x = 0
StartTime == 2        \* time(NULL) when main() starts; any value above 1

---------------------------------------------------------------------------
(* Program constants.                                                      *)

TextCap == 256            \* char text[256]
PathCap == 512            \* char filepath[512]
LineBufferSize == 1024    \* char line_buffer[1024]
LineSpacing == 3          \* float line_spacing = 1.5f
CullDistance == 400       \* distance < 200.0f

Min(a, b) == IF a < b THEN a ELSE b
Max(a, b) == IF a < b THEN b ELSE a
Clamp(v, lo, hi) == Max(lo, Min(v, hi))

---------------------------------------------------------------------------
(* String literals of the program.                                         *)

\* "FunctionPrefab"  (prefabs.c:10)
sFunctionPrefab ==
    <<"F", "u", "n", "c", "t", "i", "o", "n", "P", "r", "e", "f", "a", "b">>
\* "CodeBlockPrefab"  (prefabs.c:22)
sCodeBlockPrefab ==
    <<"C", "o", "d", "e", "B", "l", "o", "c", "k", "P", "r", "e", "f", "a", "b">>
\* "FilePrefab"  (prefabs.c:32)
sFilePrefab ==
    <<"F", "i", "l", "e", "P", "r", "e", "f", "a", "b">>
\* "HeaderSection"  (prefabs.c:42)
sHeaderSection ==
    <<"H", "e", "a", "d", "e", "r", "S", "e", "c", "t", "i", "o", "n">>
\* "FunctionSection"  (prefabs.c:52)
sFunctionSection ==
    <<"F", "u", "n", "c", "t", "i", "o", "n", "S", "e", "c", "t", "i", "o", "n">>
\* "function()"  (prefabs.c:17)
sFunctionText ==
    <<"f", "u", "n", "c", "t", "i", "o", "n", "(", ")">>
\* "{}"  (prefabs.c:27)
sBraces ==
    <<"{", "}">>
\* "file.c"  (prefabs.c:37)
sFileC ==
    <<"f", "i", "l", "e", ".", "c">>
\* "#include"  (prefabs.c:47)
sInclude ==
    <<"#", "i", "n", "c", "l", "u", "d", "e">>
\* "functions..."  (prefabs.c:57)
sFunctionsEtc ==
    <<"f", "u", "n", "c", "t", "i", "o", "n", "s", ".", ".", ".">>
\* "#include <stdio.h>"  (prefabs.c:107, file_loader.c:165)
sIncludeStdio ==
    <<"#", "i", "n", "c", "l", "u", "d", "e", " ", "<", "s", "t", "d", "i", "o", ".", "h", ">">>
\* "SceneRoot"  (prefabs.c:119)
sSceneRoot ==
    <<"S", "c", "e", "n", "e", "R", "o", "o", "t">>
\* "main.c"  (prefabs.c:126, file_loader.c:128)
sMainC ==
    <<"m", "a", "i", "n", ".", "c">>
\* "./src/main.c"  (prefabs.c:133)
sSrcMainC ==
    <<".", "/", "s", "r", "c", "/", "m", "a", "i", "n", ".", "c">>
\* "main_function"  (prefabs.c:136)
sMainFunction ==
    <<"m", "a", "i", "n", "_", "f", "u", "n", "c", "t", "i", "o", "n">>
\* "int main()"  (prefabs.c:142)
sIntMain ==
    <<"i", "n", "t", " ", "m", "a", "i", "n", "(", ")">>
\* "if_statement"  (prefabs.c:145)
sIfStatement ==
    <<"i", "f", "_", "s", "t", "a", "t", "e", "m", "e", "n", "t">>
\* "if (condition)"  (prefabs.c:151)
sIfCondition ==
    <<"i", "f", " ", "(", "c", "o", "n", "d", "i", "t", "i", "o", "n", ")">>
\* "stdio.h"  (prefabs.c:157)
sStdioH ==
    <<"s", "t", "d", "i", "o", ".", "h">>
\* "printf"  (prefabs.c:159)
sPrintf ==
    <<"p", "r", "i", "n", "t", "f">>
\* "main"  (prefabs.c:160)
sMain ==
    <<"m", "a", "i", "n">>
\* "main()"  (prefabs.c:184)
sMainCall ==
    <<"m", "a", "i", "n", "(", ")">>
\* "printf()"  (prefabs.c:190)
sPrintfCall ==
    <<"p", "r", "i", "n", "t", "f", "(", ")">>
\* "utils.c"  (file_loader.c:129)
sUtilsC ==
    <<"u", "t", "i", "l", "s", ".", "c">>
\* "components.h"  (file_loader.c:130)
sComponentsH ==
    <<"c", "o", "m", "p", "o", "n", "e", "n", "t", "s", ".", "h">>
\* "systems.c"  (file_loader.c:131)
sSystemsC ==
    <<"s", "y", "s", "t", "e", "m", "s", ".", "c">>
\* "int main() {"  (file_loader.c:167)
sIntMainBrace ==
    <<"i", "n", "t", " ", "m", "a", "i", "n", "(", ")", " ", "{">>
\* "    printf("Hello, World!\n");"  (file_loader.c:168)
sPrintfHello ==
    <<" ", " ", " ", " ", "p", "r", "i", "n", "t", "f", "(", "\"", "H", "e", "l", "l", "o", ",", " ", "W", "o", "r", "l", "d", "!", "\\", "n", "\"", ")", ";">>
\* "    return 0;"  (file_loader.c:169)
sReturn0 ==
    <<" ", " ", " ", " ", "r", "e", "t", "u", "r", "n", " ", "0", ";">>
\* "}"  (file_loader.c:170)
sCloseBrace ==
    <<"}">>
\* "FILE NOT FOUND: "  (file_loader.c:63)
sFileNotFound ==
    <<"F", "I", "L", "E", " ", "N", "O", "T", " ", "F", "O", "U", "N", "D", ":", " ">>
\* "./src"  (main.c:37)
sSrc ==
    <<".", "/", "s", "r", "c">>
\* "MainCamera"  (main.c:45)
sMainCamera ==
    <<"M", "a", "i", "n", "C", "a", "m", "e", "r", "a">>
\* "Editor"  (main.c:58)
sEditor ==
    <<"E", "d", "i", "t", "o", "r">>
\* "init_editor()"  (main.c:67)
sInitEditor ==
    <<"i", "n", "i", "t", "_", "e", "d", "i", "t", "o", "r", "(", ")">>
\* "update_camera()"  (main.c:68)
sUpdateCamera ==
    <<"u", "p", "d", "a", "t", "e", "_", "c", "a", "m", "e", "r", "a", "(", ")">>
\* "render_phantoms()"  (main.c:69)
sRenderPhantoms ==
    <<"r", "e", "n", "d", "e", "r", "_", "p", "h", "a", "n", "t", "o", "m", "s", "(", ")">>
\* "editor.c"  (main.c:72)
sEditorC ==
    <<"e", "d", "i", "t", "o", "r", ".", "c">>
\* "renderer.c"  (main.c:73)
sRendererC ==
    <<"r", "e", "n", "d", "e", "r", "e", "r", ".", "c">>

---------------------------------------------------------------------------
(* C string functions, as the program uses them.                           *)

Take(s, n) == SubSeq(s, 1, Min(Len(s), n))
Drop(s, n) == SubSeq(s, n + 1, Len(s))

\* strncpy(dst, src, cap - 1); dst[cap - 1] = '\0'
Strncpy(src, cap) == Take(src, cap - 1)

\* snprintf(dst, cap, "<prefix>%s", s)
Snprintf(prefix, s, cap) == Take(prefix \o s, cap - 1)

\* strrchr(path, '/'); filename = found ? found + 1 : path
Basename(path) ==
    LET slashes == {i \in 1..Len(path) : path[i] = "/"}
    IN  IF slashes = {} THEN path
        ELSE Drop(path, CHOOSE i \in slashes : \A j \in slashes : j <= i)

\* line_buffer[strcspn(line_buffer, "\n")] = 0
StripNewline(buf) ==
    LET nls == {i \in 1..Len(buf) : buf[i] = "\n"}
    IN  IF nls = {} THEN buf
        ELSE Take(buf, (CHOOSE i \in nls : \A j \in nls : i <= j) - 1)

\* fgets(line_buffer, sizeof(line_buffer), file): at most size - 1 bytes,
\* stopping after a newline
Fgets(stream, size) ==
    LET window == Take(stream, size - 1)
        nls == {i \in 1..Len(window) : window[i] = "\n"}
    IN  IF nls = {} THEN window
        ELSE Take(window, CHOOSE i \in nls : \A j \in nls : i <= j)

\* the bytes of a text file whose lines are all newline-terminated
RECURSIVE FileBytes(_)
FileBytes(lines) ==
    IF lines = <<>> THEN <<>>
    ELSE Head(lines) \o <<"\n">> \o FileBytes(Tail(lines))

\* s occurs in t as a contiguous substring (strstr(t, s) != NULL)
Contains(t, s) ==
    \E i \in 0..(Len(t) - Len(s)) : SubSeq(t, i + 1, i + Len(s)) = s

---------------------------------------------------------------------------
(* raymath, as called by the systems.  A Matrix is the tuple               *)
(* <<m0, m1, ..., m15>> (column-major, translation in m12..m14).           *)

Vec3(x, y, z) == [x |-> x, y |-> y, z |-> z]
Quat(x, y, z, w) == [x |-> x, y |-> y, z |-> z, w |-> w]

MatrixZero == [i \in 1..16 |-> 0]
MatrixIdentity == [i \in 1..16 |-> IF i \in {1, 6, 11, 16} THEN 1 ELSE 0]

MatrixScale(x, y, z) ==
    [MatrixIdentity EXCEPT ![1] = x, ![6] = y, ![11] = z]

MatrixTranslate(x, y, z) ==
    [MatrixIdentity EXCEPT ![13] = x, ![14] = y, ![15] = z]

QuaternionToMatrix(q) ==
    LET a2 == q.x * q.x   b2 == q.y * q.y   c2 == q.z * q.z
        ac == q.x * q.z   ab == q.x * q.y   bc == q.y * q.z
        ad == q.w * q.x   bd == q.w * q.y   cd == q.w * q.z
    IN  [MatrixIdentity EXCEPT
            ![1] = 1 - 2 * (b2 + c2), ![2] = 2 * (ab + cd), ![3] = 2 * (ac - bd),
            ![5] = 2 * (ab - cd), ![6] = 1 - 2 * (a2 + c2), ![7] = 2 * (bc + ad),
            ![9] = 2 * (ac + bd), ![10] = 2 * (bc - ad), ![11] = 1 - 2 * (a2 + b2)]

\* result.m[4a+b] = sum over k of left.m[4a+k] * right.m[4k+b]
MatrixMultiply(left, right) ==
    [i \in 1..16 |->
        LET a == (i - 1) \div 4
            b == (i - 1) % 4
        IN  left[4 * a + 1] * right[b + 1] + left[4 * a + 2] * right[4 + b + 1]
            + left[4 * a + 3] * right[8 + b + 1] + left[4 * a + 4] * right[12 + b + 1]]

Vector3Transform(v, mat) ==
    Vec3(mat[1] * v.x + mat[5] * v.y + mat[9] * v.z + mat[13],
         mat[2] * v.x + mat[6] * v.y + mat[10] * v.z + mat[14],
         mat[3] * v.x + mat[7] * v.y + mat[11] * v.z + mat[15])

\* Vector3Length(v) < limit, for limit >= 0
Vector3LengthBelow(v, limit) ==
    v.x * v.x + v.y * v.y + v.z * v.z < limit * limit

---------------------------------------------------------------------------
(* The entity/component store (flecs), as far as the program uses it.      *)
(* world.alive is the set of live entities; each component kind is a       *)
(* function from the entities that hold it to the component value; tags    *)
(* and the Prefab marker are sets; parent is the exclusive ChildOf pair.   *)

NoMap == [e \in {} |-> 0]

ComponentKinds ==
    {"position", "rotation", "scale", "transform", "text", "fileref",
     "bounds", "selected", "camera", "editor"}

\* ecs_init() followed by the Register* calls of main()
EmptyWorld ==
    [next |-> 1, alive |-> {}, parent |-> NoMap, prefab |-> {}, isa |-> NoMap,
     name |-> NoMap, pairs |-> {},
     position |-> NoMap, rotation |-> NoMap, scale |-> NoMap,
     transform |-> NoMap, text |-> NoMap, fileref |-> NoMap,
     bounds |-> NoMap, selected |-> NoMap, camera |-> NoMap,
     editor |-> NoMap, visible |-> {}, needs_reload |-> {}]

\* r, once w has been computed: the calls of a handler are evaluated one
\* after the other, as the program executes them (entity ids start at 1)
Then(w, r) == IF w.next = 0 THEN w ELSE r

\* ecs_new(world): the new entity is w.next
EcsNew(w) == [w EXCEPT !.alive = @ \cup {w.next}, !.next = @ + 1]

\* ecs_add_pair(world, e, EcsChildOf, p); a child of a prefab is a prefab too
AddChildOf(w, e, p) ==
    [w EXCEPT !.parent = (e :> p) @@ @,
              !.prefab = IF p \in w.prefab THEN @ \cup {e} ELSE @]

\* ecs_new_w_pair(world, EcsChildOf, p)
EcsNewChild(w, p) == AddChildOf(EcsNew(w), w.next, p)

\* ecs_add_id(world, e, EcsPrefab)
AddPrefab(w, e) == [w EXCEPT !.prefab = @ \cup {e}]

\* ecs_set_name(world, e, name)
SetName(w, e, n) == [w EXCEPT !.name = (e :> n) @@ @]

\* ecs_set(world, e, <kind>, value) for the kinds without observers
Set(w, kind, e, v) == [w EXCEPT ![kind] = (e :> v) @@ @]

Has(w, kind, e) == e \in DOMAIN w[kind]

Children(w, p) == {c \in DOMAIN w.parent : w.parent[c] = p}

\* ecs_lookup_child: the child of scope (0 is the root) called n, or 0
LookupChild(w, scope, n) ==
    LET found == {e \in DOMAIN w.name :
                     /\ w.name[e] = n
                     /\ IF scope = 0 THEN e \notin DOMAIN w.parent
                        ELSE e \in DOMAIN w.parent /\ w.parent[e] = scope}
    IN  IF found = {} THEN 0 ELSE CHOOSE e \in found : TRUE

\* ecs_lookup(world, "Name") for the dot-free names the program looks up
EcsLookup(w, n) == LookupChild(w, 0, n)

\* the elements of an entity path: "main.c" is <<"main", "c">>
RECURSIVE PathElems(_)
PathElems(path) ==
    LET dots == {i \in 1..Len(path) : path[i] = "."}
    IN  IF dots = {} THEN <<path>>
        ELSE LET d == CHOOSE i \in dots : \A j \in dots : i <= j
             IN  <<Take(path, d - 1)>> \o PathElems(Drop(path, d))

\* ecs_entity(world, { .name = path }): find the entity at that path, creating
\* the missing elements; the result is the entity EntityAtPath names
RECURSIVE EnsurePath(_, _, _)
EnsurePath(w, scope, elems) ==
    IF elems = <<>> THEN w
    ELSE LET hit == LookupChild(w, scope, Head(elems))
             w1 == IF hit # 0 THEN w
                   ELSE LET n == SetName(EcsNew(w), w.next, Head(elems))
                        IN  IF scope = 0 THEN n ELSE AddChildOf(n, w.next, scope)
             e == IF hit # 0 THEN hit ELSE w.next
         IN  EnsurePath(w1, e, Tail(elems))

RECURSIVE EntityAtPath(_, _, _)
EntityAtPath(w, scope, elems) ==
    IF elems = <<>> THEN scope
    ELSE EntityAtPath(w, LookupChild(w, scope, Head(elems)), Tail(elems))

EcsEntityNamed(w, path) == EnsurePath(w, 0, PathElems(path))
NamedEntity(w, path) == EntityAtPath(w, 0, PathElems(path))

\* the entities a system query visits: live, holding every kind, not a prefab
Matched(w, kinds) ==
    {e \in w.alive : e \notin w.prefab /\ \A k \in kinds : Has(w, k, e)}

---------------------------------------------------------------------------
(* Component values.                                                       *)

IdentityRotation == Quat(0, 0, 0, 1)
UnitScale == Vec3(1, 1, 1)

\* a Transform written with the dirty flag left clear
CleanTransform ==
    [world_matrix |-> MatrixZero, local_matrix |-> MatrixZero,
     needs_update |-> FALSE]

\* {.needs_update = true}: the matrices are zero-initialised
DirtyTransform ==
    [world_matrix |-> MatrixZero, local_matrix |-> MatrixZero,
     needs_update |-> TRUE]

Text(t, size, color) ==
    [text |-> t, font_size |-> size, color |-> color, billboard_mode |-> FALSE]

\* Position, Rotation {0,0,0,1}, Scale {1,1,1}, Transform {.needs_update = true}
SetSpatial(w, e, pos) ==
    Set(Set(Set(Set(w, "position", e, pos), "rotation", e, IdentityRotation),
            "scale", e, UnitScale), "transform", e, DirtyTransform)

---------------------------------------------------------------------------
(* Observers (observers.c).                                                *)

Files == {p \in DOMAIN fs : fs[p].kind = "file"}

OnFileModifiedSelfOnly(w, e) ==
    LET ref == w.fileref[e]
    IN  IF ref.filepath \in DOMAIN fs /\ fs[ref.filepath].mtime > ref.last_modified
        THEN [w EXCEPT !.needs_reload = @ \cup {e},
                      !.fileref[e].last_modified = fs[ref.filepath].mtime]
        ELSE w

\* OnFileModified for the entity whose FileReference was added or set
OnFileModified(w, e) ==
    LET ref == w.fileref[e]
    IN  IF ref.filepath \in DOMAIN fs /\ fs[ref.filepath].mtime > ref.last_modified
        THEN LET same == {p \in Matched(w, {"fileref"}) :
                             w.fileref[p].filepath = ref.filepath}
             IN  [w EXCEPT !.needs_reload = @ \cup same,
                           !.fileref[e].last_modified = fs[ref.filepath].mtime]
        ELSE w

\* the zero-constructed FileReference the OnAdd event is delivered with
ZeroFileReference == [filepath |-> <<>>, line_number |-> 0, last_modified |-> 0]

\* ecs_set(world, e, FileReference, ref): OnAdd when the component is new,
\* then OnSet, both delivered to OnFileModified (RegisterObservers)
SetFileReference(w, e, ref) ==
    LET added == IF Has(w, "fileref", e) THEN w
                 ELSE OnFileModified(Set(w, "fileref", e, ZeroFileReference), e)
    IN  OnFileModified(Set(added, "fileref", e, ref), e)

\* OnSelectionChanged for the entity whose Selected was set
OnSelectionChanged(w, e) ==
    IF ~Has(w, "text", e) THEN w
    ELSE IF w.selected[e].is_selected
         THEN [w EXCEPT !.text[e].color = "YELLOW", !.text[e].billboard_mode = TRUE]
         ELSE [w EXCEPT !.text[e].color = "WHITE", !.text[e].billboard_mode = FALSE]

\* ecs_set(world, e, Selected, sel) with the EcsOnSet observer
SetSelected(w, e, sel) == OnSelectionChanged(Set(w, "selected", e, sel), e)

---------------------------------------------------------------------------
(* File ingestion (file_loader.c).                                         *)

\* CreatePhantomFromLine; the phantom is w.next
CreatePhantomFromLine(w, line_text, line_number, filepath, position, parent) ==
    LET phantom == w.next
        w1 == SetSpatial(EcsNewChild(w, parent), phantom, position)
        w2 == Set(w1, "text", phantom, Text(Strncpy(line_text, TextCap), 10, "WHITE"))
        w3 == SetFileReference(w2, phantom,
                  [filepath |-> Strncpy(filepath, PathCap),
                   line_number |-> line_number, last_modified |-> now])
        w4 == Set(w3, "bounds", phantom, [radius |-> 1, center_offset |-> Vec3(0, 0, 0)])
    IN  [w4 EXCEPT !.visible = @ \cup {phantom}]

\* the while (fgets(...)) loop of LoadFileAsPhantoms over the unread bytes
RECURSIVE LoadLines(_, _, _, _, _, _)
LoadLines(w, stream, line_number, filepath, start_position, file_entity) ==
    IF stream = <<>> THEN w
    ELSE LET chunk == Fgets(stream, LineBufferSize)
             rest == Drop(stream, Len(chunk))
             line_buffer == StripNewline(chunk)
             line_position == Vec3(start_position.x,
                                   start_position.y - line_number * LineSpacing,
                                   start_position.z)
         IN  IF Len(line_buffer) = 0
             THEN LoadLines(w, rest, line_number + 1, filepath, start_position,
                            file_entity)
             ELSE LET w1 == CreatePhantomFromLine(w, line_buffer, line_number,
                                filepath, line_position, file_entity)
                  IN  Then(w1, LoadLines(w1, rest, line_number + 1, filepath,
                                         start_position, file_entity))

\* a failure branch that copies the path alone into the text buffer
LoadPlaceholderPathOnly(w, filepath, start_position) ==
    LET placeholder == w.next
        w1 == SetSpatial(SetName(EcsNew(w), placeholder, filepath),
                         placeholder, start_position)
    IN  Set(w1, "text", placeholder,
            Text(Strncpy(filepath, TextCap), 15, "RED"))

\* the fopen failure branch of LoadFileAsPhantoms
LoadPlaceholder(w, filepath, start_position) ==
    LET placeholder == w.next
        w1 == SetSpatial(SetName(EcsNew(w), placeholder, filepath),
                         placeholder, start_position)
    IN  Set(w1, "text", placeholder,
            Text(Snprintf(sFileNotFound, filepath, TextCap), 15, "RED"))

LoadFileAsPhantoms(w, filepath, start_position) ==
    IF filepath \notin Files THEN LoadPlaceholder(w, filepath, start_position)
    ELSE LET file_entity == w.next
             w1 == SetSpatial(SetName(EcsNew(w), file_entity, filepath),
                              file_entity, start_position)
             w2 == SetFileReference(w1, file_entity,
                       [filepath |-> Strncpy(filepath, PathCap),
                        line_number |-> 0, last_modified |-> now])
             w3 == Set(w2, "text", file_entity,
                       Text(Strncpy(Basename(filepath), TextCap), 20, "BLUE"))
         IN  Then(w3, LoadLines(w3, FileBytes(fs[filepath].lines), 0, filepath,
                                start_position, file_entity))

source_files == <<sMainC, sUtilsC, sComponentsH, sSystemsC>>

file_positions ==
    <<Vec3(0, 0, 0), Vec3(30, 0, 0), Vec3(-30, 0, 0), Vec3(0, 0, 30)>>

example_lines ==
    <<sIncludeStdio, <<>>, sIntMainBrace, sPrintfHello, sReturn0, sCloseBrace>>

\* snprintf(full_path, sizeof(full_path), "%s/%s", project_path, source_files[i])
FullPath(project_path, i) ==
    Snprintf(project_path \o <<"/">>, source_files[i + 1], PathCap)

\* the for (j ...) loop of the in-memory branch, from C index j on
RECURSIVE ExampleLines(_, _, _, _, _)
ExampleLines(w, j, i, full_path, file_entity) ==
    IF j >= 6 THEN w
    ELSE IF Len(example_lines[j + 1]) > 0
         THEN LET line_pos == Vec3(file_positions[i + 1].x,
                                   file_positions[i + 1].y - (j + 1) * 3,
                                   file_positions[i + 1].z)
                  w1 == CreatePhantomFromLine(w, example_lines[j + 1], j,
                                              full_path, line_pos, file_entity)
              IN  Then(w1, ExampleLines(w1, j + 1, i, full_path, file_entity))
         ELSE ExampleLines(w, j + 1, i, full_path, file_entity)

\* the for (i ...) loop of the in-memory branch, from C index i on
RECURSIVE ExampleFiles(_, _, _)
ExampleFiles(w, i, project_path) ==
    IF i >= 4 THEN w
    ELSE LET file_entity == w.next
             w1 == SetSpatial(SetName(EcsNew(w), file_entity, source_files[i + 1]),
                              file_entity, file_positions[i + 1])
             w2 == Set(w1, "text", file_entity,
                       Text(Strncpy(source_files[i + 1], TextCap), 20, "BLUE"))
             w3 == ExampleLines(w2, 0, i, FullPath(project_path, i), file_entity)
         IN  Then(w3, ExampleFiles(w3, i + 1, project_path))

\* the for (i ...) loop over the actual files, from C index i on
RECURSIVE LoadFiles(_, _, _)
LoadFiles(w, i, project_path) ==
    IF i >= 4 THEN w
    ELSE LET w1 == LoadFileAsPhantoms(w, FullPath(project_path, i),
                                      file_positions[i + 1])
         IN  Then(w1, LoadFiles(w1, i + 1, project_path))

LoadProjectAsPhantoms(w, project_path) ==
    IF project_path \notin DOMAIN fs THEN ExampleFiles(w, 0, project_path)
    ELSE LoadFiles(w, 0, project_path)

---------------------------------------------------------------------------
(* Prefabs and hierarchies (prefabs.c).                                    *)

\* the component values to (newly created) takes from its prefab from
CopyComponents(w, from, to) ==
    [k \in DOMAIN w |->
        IF k \in ComponentKinds /\ from \in DOMAIN w[k]
        THEN (to :> w[k][from]) @@ w[k]
        ELSE w[k]]

\* the children of a prefab are instantiated under the instance, with their
\* names and components, in creation order
RECURSIVE InstantiateChildren(_, _, _)
InstantiateChildren(w, kids, inst) ==
    IF kids = {} THEN w
    ELSE LET c == CHOOSE k \in kids : \A o \in kids : k <= o
             copy == w.next
             w1 == CopyComponents(EcsNewChild(w, inst), c, copy)
             w2 == IF c \in DOMAIN w.name THEN SetName(w1, copy, w.name[c]) ELSE w1
             w3 == InstantiateChildren(w2, Children(w, c), copy)
         IN  Then(w3, InstantiateChildren(w3, kids \ {c}, inst))

\* ecs_new_w_pair(world, EcsIsA, prefab); the instance is w.next
EcsNewIsA(w, prefab) ==
    LET instance == w.next
        w1 == [EcsNew(w) EXCEPT !.isa = (instance :> prefab) @@ @]
    IN  InstantiateChildren(CopyComponents(w1, prefab, instance),
                            Children(w, prefab), instance)

CreatePrefabs(w) ==
    LET function_prefab == w.next
        f1 == SetName(AddPrefab(EcsNew(w), function_prefab), function_prefab,
                      sFunctionPrefab)
        f2 == Set(SetSpatial(f1, function_prefab, Vec3(0, 0, 0)), "text",
                  function_prefab, Text(sFunctionText, 15, "GREEN"))
        f3 == Set(f2, "bounds", function_prefab,
                  [radius |-> 2, center_offset |-> Vec3(0, 0, 0)])
        block_prefab == f3.next
        b1 == SetName(EcsNewChild(f3, function_prefab), block_prefab,
                      sCodeBlockPrefab)
        b2 == Set(SetSpatial(b1, block_prefab, Vec3(2, -2, 0)), "text",
                  block_prefab, Text(sBraces, 12, "GRAY"))
        file_prefab == b2.next
        p1 == SetName(AddPrefab(EcsNew(b2), file_prefab), file_prefab, sFilePrefab)
        p2 == Set(SetSpatial(p1, file_prefab, Vec3(0, 0, 0)), "text",
                  file_prefab, Text(sFileC, 20, "BLUE"))
        header_slot == p2.next
        h0 == EcsNewChild(p2, file_prefab)
        h1 == SetName([h0 EXCEPT !.pairs = @ \cup {<<"SlotOf", header_slot, file_prefab>>}],
                      header_slot, sHeaderSection)
        h2 == Set(SetSpatial(h1, header_slot, Vec3(0, 6, 0)), "text",
                  header_slot, Text(sInclude, 12, "PURPLE"))
        func_slot == h2.next
        s0 == EcsNewChild(h2, file_prefab)
        s1 == SetName([s0 EXCEPT !.pairs = @ \cup {<<"SlotOf", func_slot, file_prefab>>}],
                      func_slot, sFunctionSection)
    IN  Set(SetSpatial(s1, func_slot, Vec3(0, 0, 0)), "text",
            func_slot, Text(sFunctionsEtc, 10, "WHITE"))

\* an instantiation that writes the position override to the prefab
CreateFunctionInstanceOnPrefab(w, name, position) ==
    LET function_prefab == EcsLookup(w, sFunctionPrefab)
        instance == w.next
    IN  IF function_prefab = 0 THEN w
        ELSE LET w1 == SetName(EcsNewIsA(w, function_prefab), instance, name)
                 w2 == Set(w1, "position", function_prefab, position)
                 w3 == Set(w2, "text", instance,
                           Text(Strncpy(name, TextCap), 15, "GREEN"))
             IN  Set(w3, "transform", instance, DirtyTransform)

\* the instance, when one is created, is w.next
CreateFunctionInstance(w, name, position) ==
    LET function_prefab == EcsLookup(w, sFunctionPrefab)
        instance == w.next
    IN  IF function_prefab = 0 THEN w
        ELSE LET w1 == SetName(EcsNewIsA(w, function_prefab), instance, name)
                 w2 == Set(w1, "position", instance, position)
                 w3 == Set(w2, "text", instance,
                           Text(Strncpy(name, TextCap), 15, "GREEN"))
             IN  Set(w3, "transform", instance, DirtyTransform)

\* the slot loop of CreateFileInstance over the children still to visit
RECURSIVE CustomizeSlots(_, _)
CustomizeSlots(w, slots) ==
    IF slots = {} THEN w
    ELSE LET s == CHOOSE k \in slots : \A o \in slots : k <= o
             w1 == IF s \in DOMAIN w.name /\ w.name[s] = sHeaderSection
                   THEN Set(w, "text", s, Text(Strncpy(sIncludeStdio, TextCap),
                                               12, "PURPLE"))
                   ELSE w
         IN  CustomizeSlots(w1, slots \ {s})

CreateFileInstance(w, filename) ==
    LET file_prefab == EcsLookup(w, sFilePrefab)
        file_instance == w.next
    IN  IF file_prefab = 0 THEN w
        ELSE LET w1 == SetName(EcsNewIsA(w, file_prefab), file_instance, filename)
                 w2 == Set(w1, "text", file_instance,
                           Text(Strncpy(filename, TextCap), 20, "BLUE"))
                 w3 == Set(w2, "transform", file_instance, DirtyTransform)
             IN  CustomizeSlots(w3, Children(w3, file_instance))

CreateCodeHierarchy(w) ==
    LET r0 == EcsEntityNamed(w, sSceneRoot)
        scene_root == NamedEntity(r0, sSceneRoot)
        r1 == SetSpatial(r0, scene_root, Vec3(0, 0, 0))
        c0 == EcsEntityNamed(r1, sMainC)
        code_file == NamedEntity(c0, sMainC)
        c1 == SetSpatial(AddChildOf(c0, code_file, scene_root), code_file,
                         Vec3(0, 20, 0))
        c2 == Set(c1, "text", code_file, Text(sMainC, 20, "BLUE"))
        c3 == SetFileReference(c2, code_file,
                  [filepath |-> sSrcMainC, line_number |-> 0, last_modified |-> 0])
        m0 == EcsEntityNamed(c3, sMainFunction)
        main_function == NamedEntity(m0, sMainFunction)
        m1 == SetSpatial(AddChildOf(m0, main_function, code_file), main_function,
                         Vec3(6, -4, 0))
        m2 == Set(m1, "text", main_function, Text(sIntMain, 15, "GREEN"))
        i0 == EcsEntityNamed(m2, sIfStatement)
        if_block == NamedEntity(i0, sIfStatement)
        i1 == SetSpatial(AddChildOf(i0, if_block, main_function), if_block,
                         Vec3(4, -3, 0))
    IN  Set(i1, "text", if_block, Text(sIfCondition, 12, "ORANGE"))

SetupCodeDependencies(w) ==
    LET h0 == EcsEntityNamed(w, sStdioH)
        header_file == NamedEntity(h0, sStdioH)
        s0 == EcsEntityNamed(h0, sMainC)
        source_file == NamedEntity(s0, sMainC)
        p0 == EcsEntityNamed(s0, sPrintf)
        printf_func == NamedEntity(p0, sPrintf)
        m0 == EcsEntityNamed(p0, sMain)
        main_func == NamedEntity(m0, sMain)
        d0 == [m0 EXCEPT !.pairs = @ \cup {<<"Includes", source_file, header_file>>,
                                           <<"References", main_func, printf_func>>,
                                           <<"Contains", printf_func, header_file>>}]
        d1 == Set(SetSpatial(d0, header_file, Vec3(-10, 10, 0)), "text",
                  header_file, Text(sStdioH, 10, "PURPLE"))
        d2 == Set(SetSpatial(d1, source_file, Vec3(0, 0, 0)), "text",
                  source_file, Text(sMainC, 15, "BLUE"))
        d3 == Set(SetSpatial(d2, main_func, Vec3(4, -4, 0)), "text",
                  main_func, Text(sMainCall, 12, "GREEN"))
    IN  Set(SetSpatial(d3, printf_func, Vec3(-4, -4, 0)), "text",
            printf_func, Text(sPrintfCall, 12, "YELLOW"))

---------------------------------------------------------------------------
(* Systems (core_systems.c).                                               *)

\* the editor and camera singletons both found with their components
SingletonsPresent(w) ==
    LET editor_entity == EcsLookup(w, sEditor)
        camera_entity == EcsLookup(w, sMainCamera)
    IN  /\ editor_entity # 0
        /\ camera_entity # 0
        /\ Has(w, "editor", editor_entity)
        /\ Has(w, "camera", camera_entity)

\* a mode switch that advances current_mode without wrapping at 3
InputSystemNoWrap(w, in) ==
    IF ~SingletonsPresent(w) THEN w
    ELSE LET ed == EcsLookup(w, sEditor)
             cam == EcsLookup(w, sMainCamera)
             c0 == w.camera[cam]
             c1 == IF in.left_down
                   THEN [c0 EXCEPT !.yaw = @ + in.delta[1] * c0.rotation_speed,
                                   !.pitch = Clamp(@ - in.delta[2] * c0.rotation_speed,
                                                   -178, 178)]
                   ELSE c0
             c2 == IF in.right_down
                   THEN [c1 EXCEPT !.target = Vec3(@.x + in.pan.x, @.y + in.pan.y,
                                                   @.z + in.pan.z)]
                   ELSE c1
             c3 == [c2 EXCEPT !.distance = Clamp(@ - in.wheel * 4, 2, 200)]
             w1 == IF w.editor[ed].current_mode = 0
                   THEN [w EXCEPT !.camera[cam] = c3]
                   ELSE w
         IN  IF in.tab
             THEN [w1 EXCEPT !.editor[ed].previous_mode = w.editor[ed].current_mode,
                             !.editor[ed].current_mode =
                                 w.editor[ed].current_mode + 1,
                             !.editor[ed].mode_transition = TRUE]
             ELSE w1

\* a mode switch that records previous_mode after current_mode is advanced
InputSystemPreviousAfter(w, in) ==
    IF ~SingletonsPresent(w) THEN w
    ELSE LET ed == EcsLookup(w, sEditor)
             cam == EcsLookup(w, sMainCamera)
             c0 == w.camera[cam]
             c1 == IF in.left_down
                   THEN [c0 EXCEPT !.yaw = @ + in.delta[1] * c0.rotation_speed,
                                   !.pitch = Clamp(@ - in.delta[2] * c0.rotation_speed,
                                                   -178, 178)]
                   ELSE c0
             c2 == IF in.right_down
                   THEN [c1 EXCEPT !.target = Vec3(@.x + in.pan.x, @.y + in.pan.y,
                                                   @.z + in.pan.z)]
                   ELSE c1
             c3 == [c2 EXCEPT !.distance = Clamp(@ - in.wheel * 4, 2, 200)]
             w1 == IF w.editor[ed].current_mode = 0
                   THEN [w EXCEPT !.camera[cam] = c3]
                   ELSE w
         IN  IF in.tab
             THEN [w1 EXCEPT !.editor[ed].previous_mode =
                                 (w.editor[ed].current_mode + 1) % 3,
                             !.editor[ed].current_mode =
                                 (w.editor[ed].current_mode + 1) % 3,
                             !.editor[ed].mode_transition = TRUE]
             ELSE w1

\* an input step that moves the camera in every editor mode
InputSystemCameraAnyMode(w, in) ==
    IF ~SingletonsPresent(w) THEN w
    ELSE LET ed == EcsLookup(w, sEditor)
             cam == EcsLookup(w, sMainCamera)
             c0 == w.camera[cam]
             c1 == IF in.left_down
                   THEN [c0 EXCEPT !.yaw = @ + in.delta[1] * c0.rotation_speed,
                                   !.pitch = Clamp(@ - in.delta[2] * c0.rotation_speed,
                                                   -178, 178)]
                   ELSE c0
             c2 == IF in.right_down
                   THEN [c1 EXCEPT !.target = Vec3(@.x + in.pan.x, @.y + in.pan.y,
                                                   @.z + in.pan.z)]
                   ELSE c1
             c3 == [c2 EXCEPT !.distance = Clamp(@ - in.wheel * 4, 2, 200)]
             w1 == [w EXCEPT !.camera[cam] = c3]
         IN  IF in.tab
             THEN [w1 EXCEPT !.editor[ed].previous_mode = w.editor[ed].current_mode,
                             !.editor[ed].current_mode =
                                 (w.editor[ed].current_mode + 1) % 3,
                             !.editor[ed].mode_transition = TRUE]
             ELSE w1

\* an input step that leaves the pitch unclamped
InputSystemNoPitchClamp(w, in) ==
    IF ~SingletonsPresent(w) THEN w
    ELSE LET ed == EcsLookup(w, sEditor)
             cam == EcsLookup(w, sMainCamera)
             c0 == w.camera[cam]
             c1 == IF in.left_down
                   THEN [c0 EXCEPT !.yaw = @ + in.delta[1] * c0.rotation_speed,
                                   !.pitch = @ - in.delta[2] * c0.rotation_speed]
                   ELSE c0
             c2 == IF in.right_down
                   THEN [c1 EXCEPT !.target = Vec3(@.x + in.pan.x, @.y + in.pan.y,
                                                   @.z + in.pan.z)]
                   ELSE c1
             c3 == [c2 EXCEPT !.distance = Clamp(@ - in.wheel * 4, 2, 200)]
             w1 == IF w.editor[ed].current_mode = 0
                   THEN [w EXCEPT !.camera[cam] = c3]
                   ELSE w
         IN  IF in.tab
             THEN [w1 EXCEPT !.editor[ed].previous_mode = w.editor[ed].current_mode,
                             !.editor[ed].current_mode =
                                 (w.editor[ed].current_mode + 1) % 3,
                             !.editor[ed].mode_transition = TRUE]
             ELSE w1

\* in.pan is the displacement right * (-dx * 0.01) + up * (dy * 0.01) the
\* trigonometry of the pan branch yields for this frame's mouse delta
InputSystem(w, in) ==
    IF ~SingletonsPresent(w) THEN w
    ELSE LET ed == EcsLookup(w, sEditor)
             cam == EcsLookup(w, sMainCamera)
             c0 == w.camera[cam]
             c1 == IF in.left_down
                   THEN [c0 EXCEPT !.yaw = @ + in.delta[1] * c0.rotation_speed,
                                   !.pitch = Clamp(@ - in.delta[2] * c0.rotation_speed,
                                                   -178, 178)]
                   ELSE c0
             c2 == IF in.right_down
                   THEN [c1 EXCEPT !.target = Vec3(@.x + in.pan.x, @.y + in.pan.y,
                                                   @.z + in.pan.z)]
                   ELSE c1
             c3 == [c2 EXCEPT !.distance = Clamp(@ - in.wheel * 4, 2, 200)]
             w1 == IF w.editor[ed].current_mode = 0
                   THEN [w EXCEPT !.camera[cam] = c3]
                   ELSE w
         IN  IF in.tab
             THEN [w1 EXCEPT !.editor[ed].previous_mode = w.editor[ed].current_mode,
                             !.editor[ed].current_mode =
                                 (w.editor[ed].current_mode + 1) % 3,
                             !.editor[ed].mode_transition = TRUE]
             ELSE w1

\* a per-entity update that computes the matrices but leaves the flag set
TransformEntityKeepsFlag(pos, rot, scl, tr) ==
    IF tr.needs_update
    THEN LET rot_matrix == QuaternionToMatrix(rot)
             scale_matrix == MatrixScale(scl.x, scl.y, scl.z)
             translate_matrix == MatrixTranslate(pos.x, pos.y, pos.z)
             local == MatrixMultiply(MatrixMultiply(scale_matrix, rot_matrix),
                                     translate_matrix)
         IN  [world_matrix |-> local, local_matrix |-> local,
              needs_update |-> TRUE]
    ELSE tr

\* a per-entity update that flags a clean entity for the next pass
TransformEntityAlternates(pos, rot, scl, tr) ==
    IF tr.needs_update
    THEN LET rot_matrix == QuaternionToMatrix(rot)
             scale_matrix == MatrixScale(scl.x, scl.y, scl.z)
             translate_matrix == MatrixTranslate(pos.x, pos.y, pos.z)
             local == MatrixMultiply(MatrixMultiply(scale_matrix, rot_matrix),
                                     translate_matrix)
         IN  [world_matrix |-> local, local_matrix |-> local,
              needs_update |-> FALSE]
    ELSE [tr EXCEPT !.needs_update = TRUE]

\* per matched entity: local = (S * R) * T, world = local, flag cleared
TransformEntity(pos, rot, scl, tr) ==
    IF tr.needs_update
    THEN LET rot_matrix == QuaternionToMatrix(rot)
             scale_matrix == MatrixScale(scl.x, scl.y, scl.z)
             translate_matrix == MatrixTranslate(pos.x, pos.y, pos.z)
             local == MatrixMultiply(MatrixMultiply(scale_matrix, rot_matrix),
                                     translate_matrix)
         IN  [world_matrix |-> local, local_matrix |-> local,
              needs_update |-> FALSE]
    ELSE tr

TransformQuery == {"position", "rotation", "scale", "transform"}

\* a transform pass that skips every entity that has a parent
TransformSystemRootsOnly(w) ==
    [w EXCEPT !.transform =
        [e \in DOMAIN @ |->
            IF e \in Matched(w, TransformQuery) /\ e \notin DOMAIN w.parent
            THEN TransformEntity(w.position[e], w.rotation[e], w.scale[e], @[e])
            ELSE @[e]]]

TransformSystem(w) ==
    [w EXCEPT !.transform =
        [e \in DOMAIN @ |->
            IF e \in Matched(w, TransformQuery)
            THEN TransformEntity(w.position[e], w.rotation[e], w.scale[e], @[e])
            ELSE @[e]]]

\* Vector3Length(Vector3Transform(center_offset, world_matrix)) < 200.0f
CullVisible(tr, bs) ==
    Vector3LengthBelow(Vector3Transform(bs.center_offset, tr.world_matrix),
                       CullDistance)

CullingQuery == {"transform", "bounds"}

\* a culling pass that flips the tag of an entity within the distance
CullingSystemToggles(w) ==
    LET matched == Matched(w, CullingQuery)
        on == {e \in matched : CullVisible(w.transform[e], w.bounds[e])}
    IN  [w EXCEPT !.visible = (@ \ matched) \cup (on \ @)]

\* the Visible tags are as the add/remove commands leave them at the merge
CullingSystem(w) ==
    LET matched == Matched(w, CullingQuery)
        on == {e \in matched : CullVisible(w.transform[e], w.bounds[e])}
    IN  [w EXCEPT !.visible = (@ \ matched) \cup on]

\* a renderer whose query leaves out the Visible term
TextRenderSystemAll(w) == Matched(w, {"transform", "text"})

\* the entities TextRenderSystem calls DrawText3D for
TextRenderSystem(w) ==
    {e \in Matched(w, {"transform", "text"}) : e \in w.visible}

\* a check that stamps a stale reference with the file's mtime, not the clock
HotReloadSystemStoresMtime(w) ==
    [w EXCEPT !.fileref =
        [e \in DOMAIN @ |->
            IF /\ e \in Matched(w, {"fileref"})
               /\ now - @[e].last_modified > 1
               /\ @[e].filepath \in Files
            THEN [@[e] EXCEPT !.last_modified = fs[w.fileref[e].filepath].mtime]
            ELSE @[e]]]

HotReloadSystem(w) ==
    [w EXCEPT !.fileref =
        [e \in DOMAIN @ |->
            IF e \in Matched(w, {"fileref"}) /\ now - @[e].last_modified > 1
            THEN [@[e] EXCEPT !.last_modified = now]
            ELSE @[e]]]

\* a picking step that marks the new entity selected and leaves the Selection
\* of the previously focused entity as it is
PickingSystemSelecting(w, in) ==
    IF ~SingletonsPresent(w) THEN w
    ELSE LET ed == EcsLookup(w, sEditor)
         IN  IF in.left_pressed /\ w.editor[ed].current_mode = 0
             THEN LET closest_entity == w.next
                      w1 == SetSelected(EcsNew(w), closest_entity,
                                [is_selected |-> TRUE, selection_id |-> 0,
                                 selection_time |-> now])
                  IN  [w1 EXCEPT !.editor[ed].focused_entity = closest_entity]
             ELSE w

\* a picking step that creates its entity before it looks for the singletons
PickingSystemUnguarded(w, in) ==
    IF ~SingletonsPresent(w)
    THEN IF in.left_pressed THEN EcsNew(w) ELSE w
    ELSE LET ed == EcsLookup(w, sEditor)
         IN  IF in.left_pressed /\ w.editor[ed].current_mode = 0
             THEN LET closest_entity == w.next
                  IN  [EcsNew(w) EXCEPT !.editor[ed].focused_entity = closest_entity]
             ELSE w

\* a picking step that does not look at the editor mode
PickingSystemAnyMode(w, in) ==
    IF ~SingletonsPresent(w) THEN w
    ELSE LET ed == EcsLookup(w, sEditor)
         IN  IF in.left_pressed
             THEN LET closest_entity == w.next
                  IN  [EcsNew(w) EXCEPT !.editor[ed].focused_entity = closest_entity]
             ELSE w

\* closest_entity = ecs_new(it->world); only focused_entity is updated
PickingSystem(w, in) ==
    IF ~SingletonsPresent(w) THEN w
    ELSE LET ed == EcsLookup(w, sEditor)
         IN  IF in.left_pressed /\ w.editor[ed].current_mode = 0
             THEN LET closest_entity == w.next
                  IN  [EcsNew(w) EXCEPT !.editor[ed].focused_entity = closest_entity]
             ELSE w

\* The systems RegisterCoreSystems registers.  ecs_progress is taken to run
\* each of them once per frame.
Systems ==
    {"InputSystem", "PickingSystem", "TransformSystem", "CullingSystem",
     "TextRenderSystem", "HotReloadSystem"}

\* EcsDependsOn pairs added by RegisterCoreSystems: a system runs after the
\* systems it depends on
DependsOn(s) ==
    CASE s = "TransformSystem" -> {"InputSystem"}
      [] s = "CullingSystem" -> {"TransformSystem"}
      [] s = "TextRenderSystem" -> {"CullingSystem"}
      [] s = "PickingSystem" -> {"InputSystem"}
      [] OTHER -> {}

---------------------------------------------------------------------------
(* main() (main.c).                                                        *)

\* main.c:44-54: the camera entity, named and given its controller
CreateCameraEntity(w) ==
    LET camera_entity == w.next
    IN  Set(SetName(EcsNew(w), camera_entity, sMainCamera), "camera",
            camera_entity,
            [target |-> Vec3(0, 0, 0), distance |-> 40, pitch |-> 60,
             yaw |-> 90, move_speed |-> 20, rotation_speed |-> 1,
             mode |-> 0])

\* main.c:57-58: the editor entity, named and not yet given its EditorState
CreateEditorEntity(w) == SetName(EcsNew(w), w.next, sEditor)

\* main.c:43-64: the MainCamera and Editor singletons
CreateSingletons(w) ==
    LET w1 == CreateCameraEntity(w)
        editor == w1.next
    IN  Set(CreateEditorEntity(w1), "editor", editor,
            [current_mode |-> 0, previous_mode |-> 0, mode_transition |-> FALSE,
             focused_entity |-> 0])

\* main.c:67-73: three function instances and two file instances
CreateInstances(w) ==
    LET w1 == CreateFunctionInstance(w, sInitEditor, Vec3(10, 10, 0))
        w2 == Then(w1, CreateFunctionInstance(w1, sUpdateCamera, Vec3(-10, 10, 0)))
        w3 == Then(w2, CreateFunctionInstance(w2, sRenderPhantoms, Vec3(0, -10, 0)))
        w4 == Then(w3, CreateFileInstance(w3, sEditorC))
    IN  Then(w4, CreateFileInstance(w4, sRendererC))

\* a drawing step that shows the feedback and leaves the flag raised
DrawFrameKeepsFlag(w) == w

\* main.c:188-197: the mode-switch feedback resets the flag
DrawFrame(w) ==
    LET ed == EcsLookup(w, sEditor)
    IN  IF ed # 0 /\ Has(w, "editor", ed) /\ w.editor[ed].mode_transition
        THEN [w EXCEPT !.editor[ed].mode_transition = FALSE]
        ELSE w

---------------------------------------------------------------------------
(* Inputs of the environment.                                              *)

NoRay == [position |-> Vec3(0, 0, 0), direction |-> Vec3(0, 0, 0)]

NoInput ==
    [tab |-> FALSE, left_pressed |-> FALSE, left_down |-> FALSE,
     right_down |-> FALSE, delta |-> <<0, 0>>, wheel |-> 0,
     pan |-> Vec3(0, 0, 0), ray |-> NoRay]

\* GetMouseRay results offered to a pointer press: straight down the z axis
\* from two screen positions, and one pointing away from the scene
Rays ==
    {[position |-> Vec3(30, 0, 80), direction |-> Vec3(0, 0, -1)],
     [position |-> Vec3(0, 0, 80), direction |-> Vec3(0, 0, -1)],
     [position |-> Vec3(0, 0, 80), direction |-> Vec3(0, 0, 1)]}

\* entities PickingSystem created for a press: they hold nothing at all
Picked(w) ==
    {e \in w.alive : /\ e \notin DOMAIN w.name
                     /\ e \notin DOMAIN w.parent
                     /\ e \notin DOMAIN w.isa
                     /\ \A k \in ComponentKinds : ~Has(w, k, e)}

SelectInputs(w) ==
    {[NoInput EXCEPT !.tab = t] : t \in BOOLEAN}
    \cup (IF Cardinality(Picked(w)) >= MaxPicks THEN {}
          ELSE {[NoInput EXCEPT !.tab = t, !.left_pressed = TRUE,
                                !.left_down = TRUE, !.ray = r] :
                    t \in BOOLEAN, r \in Rays})

CameraInputs(w) ==
    LET cam == EcsLookup(w, sMainCamera)
        c == w.camera[cam]
        drags == {d \in {<<MouseStep, 0>>, <<0, MouseStep>>, <<0, -MouseStep>>} :
                     c.yaw + d[1] <= MaxYaw}
        pans == {p \in {1} : c.target.x + p <= MaxPan}
                \cup {p \in {PanSweep} : c.target.x = 0}
    IN  {[NoInput EXCEPT !.tab = t] : t \in BOOLEAN}
        \cup {[NoInput EXCEPT !.left_down = TRUE, !.delta = d] : d \in drags}
        \cup {[NoInput EXCEPT !.right_down = TRUE, !.delta = <<p, 0>>,
                              !.pan = Vec3(p, 0, 0)] : p \in pans}
        \cup {[NoInput EXCEPT !.wheel = k] : k \in {-WheelStep, WheelStep}}

Inputs(w) ==
    CASE scenario = "select" -> SelectInputs(w)
      [] scenario = "camera" -> CameraInputs(w)
      [] OTHER -> {NoInput}

---------------------------------------------------------------------------
(* File systems.                                                           *)

Dir == [kind |-> "dir", mtime |-> 1, lines |-> <<>>]
File(lines) == [kind |-> "file", mtime |-> 1, lines |-> lines]

\* the content of every project file that exists: "a", "", "b"
SampleLines == <<<<"a">>, <<>>, <<"b">>>>

ProjectPaths == {FullPath(sSrc, i) : i \in 0..3}

\* no ./src at all, or ./src with at most MaxMissing of its files absent
ProjectFileSystems ==
    {NoMap} \cup
    {[p \in {sSrc} \cup present |-> IF p = sSrc THEN Dir ELSE File(SampleLines)] :
        present \in {s \in SUBSET ProjectPaths :
                        Cardinality(ProjectPaths \ s) <= MaxMissing}}

\* A run exercises one family of external events: pointer presses and Tab
\* over every project file system, camera input over the in-memory project,
\* or the clock and file rewrites over the complete project.
Scenarios == {"select", "camera", "reload"}

FileSystemsOf(s) ==
    CASE s = "select" -> ProjectFileSystems
      [] s = "camera" -> {NoMap}
      [] OTHER -> {f \in ProjectFileSystems : ProjectPaths \subseteq DOMAIN f}

---------------------------------------------------------------------------
(* The program: start-up of main(), then one ecs_progress and one drawing  *)
(* step per frame.                                                         *)

Init ==
    /\ world = EmptyWorld
    /\ pc = "CreatePrefabs"
    /\ ran = {}
    /\ input = NoInput
    /\ now = StartTime
    /\ scenario \in Scenarios
    /\ fs \in FileSystemsOf(scenario)
    /\ drawn = {}

Startup(at, w, next) ==
    /\ pc = at
    /\ world' = w
    /\ pc' = next
    /\ UNCHANGED <<ran, input, now, fs, drawn, scenario>>

DoCreatePrefabs ==
    Startup("CreatePrefabs", CreatePrefabs(world), "LoadProjectAsPhantoms")

DoLoadProjectAsPhantoms ==
    Startup("LoadProjectAsPhantoms", LoadProjectAsPhantoms(world, sSrc),
            "CreateCodeHierarchy")

DoCreateCodeHierarchy ==
    Startup("CreateCodeHierarchy", CreateCodeHierarchy(world),
            "SetupCodeDependencies")

DoSetupCodeDependencies ==
    Startup("SetupCodeDependencies", SetupCodeDependencies(world),
            "CreateSingletons")

DoCreateSingletons ==
    Startup("CreateSingletons", CreateSingletons(world), "CreateInstances")

DoCreateInstances ==
    Startup("CreateInstances", CreateInstances(world), "frame")

\* ecs_progress runs a system once its EcsDependsOn targets have run
CanRun(s) == pc = "frame" /\ s \notin ran /\ DependsOn(s) \subseteq ran

Run(s, w) ==
    /\ CanRun(s)
    /\ world' = w
    /\ ran' = ran \cup {s}
    /\ UNCHANGED <<pc, input, now, fs, drawn, scenario>>

RunInputSystem == Run("InputSystem", InputSystem(world, input))
RunPickingSystem == Run("PickingSystem", PickingSystem(world, input))
RunTransformSystem == Run("TransformSystem", TransformSystem(world))
RunCullingSystem == Run("CullingSystem", CullingSystem(world))
RunHotReloadSystem == Run("HotReloadSystem", HotReloadSystem(world))

RunTextRenderSystem ==
    /\ CanRun("TextRenderSystem")
    /\ drawn' = TextRenderSystem(world)
    /\ ran' = ran \cup {"TextRenderSystem"}
    /\ UNCHANGED <<world, pc, input, now, fs, scenario>>

\* the drawing half of the loop body; EndDrawing polls the next frame's input
Draw ==
    /\ pc = "frame"
    /\ ran = Systems
    /\ world' = DrawFrame(world)
    /\ input' \in Inputs(world)
    /\ ran' = {}
    /\ drawn' = {}
    /\ UNCHANGED <<pc, now, fs, scenario>>

\* a second passes between two frames
Tick ==
    /\ scenario = "reload"
    /\ now < MaxTime
    /\ pc = "frame"
    /\ ran = {}
    /\ now' = now + 1
    /\ UNCHANGED <<world, pc, ran, input, fs, drawn, scenario>>

\* a project file is rewritten by another program between two frames
Touch ==
    /\ scenario = "reload"
    /\ pc = "frame"
    /\ ran = {}
    /\ Cardinality({p \in Files : fs[p].mtime > 1}) < MaxTouches
    /\ \E p \in Files :
          /\ fs[p].mtime < now
          /\ fs' = [fs EXCEPT ![p].mtime = now]
    /\ UNCHANGED <<world, pc, ran, input, now, drawn, scenario>>

Next ==
    \/ DoCreatePrefabs
    \/ DoLoadProjectAsPhantoms
    \/ DoCreateCodeHierarchy
    \/ DoSetupCodeDependencies
    \/ DoCreateSingletons
    \/ DoCreateInstances
    \/ RunInputSystem
    \/ RunPickingSystem
    \/ RunTransformSystem
    \/ RunCullingSystem
    \/ RunTextRenderSystem
    \/ RunHotReloadSystem
    \/ Draw
    \/ Tick
    \/ Touch

Spec == Init /\ [][Next]_vars

\* the calls main() makes before its loop
Main ==
    \/ DoCreatePrefabs
    \/ DoLoadProjectAsPhantoms
    \/ DoCreateCodeHierarchy
    \/ DoSetupCodeDependencies
    \/ DoCreateSingletons
    \/ DoCreateInstances

\* one iteration of the loop of main(): the systems of ecs_progress, then
\* the drawing step
Frame ==
    \/ RunInputSystem
    \/ RunPickingSystem
    \/ RunTransformSystem
    \/ RunCullingSystem
    \/ RunTextRenderSystem
    \/ RunHotReloadSystem
    \/ Draw

\* main() runs its start-up calls to the end and then keeps iterating its
\* loop.  The first conjunct is WF_vars(Main) written out, a start-up call
\* being enabled exactly while pc # "frame".
FairSpec ==
    /\ Spec
    /\ ([]<>(pc = "frame") \/ []<><<Main>>_vars)
    /\ WF_vars(Frame)

---------------------------------------------------------------------------
(* File ingestion on its own: LoadFileAsPhantoms called on a registered    *)
(* world with paths that exist, do not exist, or exceed the buffers, and   *)
(* file contents whose lines reach the sizes of the text and line buffers. *)

\* a line of n characters: "h", then "x"s, then "t"
LongLine(n) == [i \in 1..n |-> IF i = 1 THEN "h" ELSE IF i = n THEN "t" ELSE "x"]

\* an absolute path of n characters with a "/" every hundred characters
LongPath(n) == [i \in 1..n |-> IF i % 100 = 1 THEN "/" ELSE "p"]

sShortPath == <<"/", "f">>

IngestLines ==
    {<<>>, <<"a">>, <<"b">>, LongLine(TextCap), LongLine(LineBufferSize - 1)}

IngestContents == UNION {[1..k -> IngestLines] : k \in 0..MaxLines}

IngestPaths == {sShortPath, LongPath(TextCap - 16), LongPath(PathCap + 88)}

IngestStarts == {Vec3(0, 0, 0), Vec3(2, 4, 6)}

\* nothing exists, or the short path holds any of the contents, or the
\* longest path holds a one-line file
IngestFileSystems ==
    {NoMap}
    \cup {[p \in {sShortPath} |-> File(c)] : c \in IngestContents}
    \cup {[p \in {LongPath(PathCap + 88)} |-> File(<<<<"a">>>>)]}

\* the entities LoadFileAsPhantoms starts with: one per call
Loaded(w) == {e \in DOMAIN w.name : e \notin DOMAIN w.parent}

InitIngest ==
    /\ world = EmptyWorld
    /\ pc = "ingest"
    /\ ran = {}
    /\ input = NoInput
    /\ now = StartTime
    /\ scenario = "ingest"
    /\ fs \in IngestFileSystems
    /\ drawn = {}

Ingest ==
    /\ pc = "ingest"
    /\ Cardinality(Loaded(world)) < MaxLoads
    /\ \E filepath \in IngestPaths, start_position \in IngestStarts :
          world' = LoadFileAsPhantoms(world, filepath, start_position)
    /\ UNCHANGED <<pc, ran, input, now, fs, drawn, scenario>>

NextIngest == Ingest

SpecIngest == InitIngest /\ [][NextIngest]_vars


---------------------------------------------------------------------------
(* Culling of loaded files: LoadFileAsPhantoms at start positions near,    *)
(* at and beyond the culling distance, followed by the transform and       *)
(* culling passes in any order.                                            *)

\* line 0 of the second start lies exactly at the culling distance; of the
\* third start, line 0 lies beyond it and line 2 within it; the fourth start
\* is far beyond it
CullStarts ==
    {Vec3(0, 0, 0), Vec3(0, 0, CullDistance), Vec3(0, 30, CullDistance - 1),
     Vec3(0, 0, 2 * CullDistance)}

CullFileSystems == {NoMap, [p \in {sShortPath} |-> File(SampleLines)]}

InitCull ==
    /\ world = EmptyWorld
    /\ pc = "cull"
    /\ ran = {}
    /\ input = NoInput
    /\ now = StartTime
    /\ scenario = "cull"
    /\ fs \in CullFileSystems
    /\ drawn = {}

LoadForCulling ==
    /\ pc = "cull"
    /\ Cardinality(Loaded(world)) < MaxLoads
    /\ \E start_position \in CullStarts :
          world' = LoadFileAsPhantoms(world, sShortPath, start_position)
    /\ UNCHANGED <<pc, ran, input, now, fs, drawn, scenario>>

TransformLoaded ==
    /\ pc = "cull"
    /\ world' = TransformSystem(world)
    /\ UNCHANGED <<pc, ran, input, now, fs, drawn, scenario>>

CullLoaded ==
    /\ pc = "cull"
    /\ world' = CullingSystem(world)
    /\ UNCHANGED <<pc, ran, input, now, fs, drawn, scenario>>

\* the store as main has it between naming the Editor entity and setting
\* its EditorState (main.c:58-59)
BeginSingletons ==
    /\ pc = "cull"
    /\ EcsLookup(world, sMainCamera) = 0
    /\ world' = CreateEditorEntity(CreateCameraEntity(world))
    /\ UNCHANGED <<pc, ran, input, now, fs, drawn, scenario>>

\* a frame's input with every key, button and wheel in use, and none
CullInputs ==
    {NoInput,
     [NoInput EXCEPT !.tab = TRUE, !.left_pressed = TRUE, !.left_down = TRUE,
                     !.right_down = TRUE, !.delta = <<MouseStep, MouseStep>>,
                     !.wheel = WheelStep, !.pan = Vec3(1, 0, 0)]}

InputLoaded ==
    /\ pc = "cull"
    /\ "InputSystem" \notin ran
    /\ \E in \in CullInputs :
          /\ world' = InputSystem(world, in)
          /\ input' = in
    /\ ran' = ran \cup {"InputSystem"}
    /\ UNCHANGED <<pc, now, fs, drawn, scenario>>

PickLoaded ==
    /\ pc = "cull"
    /\ "PickingSystem" \notin ran
    /\ \E in \in CullInputs :
          /\ world' = PickingSystem(world, in)
          /\ input' = in
    /\ ran' = ran \cup {"PickingSystem"}
    /\ UNCHANGED <<pc, now, fs, drawn, scenario>>

\* ecs_set of Selected on one entity, selecting it or deselecting it again
SelectLoaded ==
    /\ pc = "cull"
    /\ \E e \in world.alive :
          /\ DOMAIN world.selected \subseteq {e}
          /\ \E is_selected \in BOOLEAN :
                /\ Has(world, "selected", e) => world.selected[e].is_selected # is_selected
                /\ world' = SetSelected(world, e,
                                [is_selected |-> is_selected, selection_id |-> 0,
                                 selection_time |-> now])
    /\ UNCHANGED <<pc, ran, input, now, fs, drawn, scenario>>

NextCull ==
    \/ LoadForCulling
    \/ TransformLoaded
    \/ CullLoaded
    \/ BeginSingletons
    \/ InputLoaded
    \/ PickLoaded
    \/ SelectLoaded

SpecCull == InitCull /\ [][NextCull]_vars
---------------------------------------------------------------------------
(* Properties.                                                             *)

Editor == world.editor[EcsLookup(world, sEditor)]

\* a pointer press was accepted by this frame's PickingSystem
PressAccepted ==
    /\ pc = "frame"
    /\ "PickingSystem" \in ran
    /\ input.left_pressed
    /\ SingletonsPresent(world)
    /\ Editor.current_mode = 0

HasSpatialAndTransform(e) == \A k \in TransformQuery : Has(world, k, e)

\* every entity TransformSystem matches has a clear dirty flag
MatchedClean ==
    \A e \in Matched(world, TransformQuery) : ~world.transform[e].needs_update

\* entities with an active Selection
ActiveSelected == {e \in DOMAIN world.selected : world.selected[e].is_selected}

\* the renderer's visibility query: Transform + TextContent + Visible
RenderQuery == TextRenderSystem(world)

\* the placeholders of failed loads: named after the path, red error text,
\* no FileReference
Placeholders(w) ==
    {e \in Loaded(w) : /\ Has(w, "text", e)
                       /\ w.text[e].color = "RED"
                       /\ ~Has(w, "fileref", e)}

\* the containers of successful loads
Containers(w) == {e \in Loaded(w) : Has(w, "fileref", e)}

\* the ray has a positive intersection distance with the sphere (centre c,
\* radius r), for a unit-length direction
RayHitsSphere(ray, c, r) ==
    LET lx == c.x - ray.position.x
        ly == c.y - ray.position.y
        lz == c.z - ray.position.z
        tca == lx * ray.direction.x + ly * ray.direction.y + lz * ray.direction.z
        ll == lx * lx + ly * ly + lz * lz
    IN  /\ ll - tca * tca <= r * r
        /\ (tca > 0 \/ ll < r * r)

\* the entities with Transform + BoundingVolume whose world-space sphere the
\* ray intersects
Hits(w, ray) ==
    {e \in Matched(w, CullingQuery) :
        RayHitsSphere(ray,
            Vector3Transform(w.bounds[e].center_offset, w.transform[e].world_matrix),
            w.bounds[e].radius)}

\* C1 (as claimed): once TransformSystem has run in a frame, every entity
\* carrying Position, Rotation, Scale and Transform has a clear dirty flag.
C1_AllEntitiesClean ==
    (pc = "frame" /\ "TransformSystem" \in ran) =>
        \A e \in world.alive :
            HasSpatialAndTransform(e) => ~world.transform[e].needs_update

\* C1 (amended): once TransformSystem has run, every entity it matches (every
\* non-prefab entity carrying Position, Rotation, Scale and Transform) has a
\* clear dirty flag, and keeps it clear in all later frames, the program
\* writing no Spatial component after start-up.
C1_MatchedCleanAfterTransform ==
    /\ []((pc = "frame" /\ "TransformSystem" \in ran) => MatchedClean)
    /\ [][(pc = "frame" /\ MatchedClean) => MatchedClean']_vars

C1_Witness ==
    /\ pc = "frame"
    /\ "TransformSystem" \in ran
    /\ \E e \in DOMAIN world.isa : ~world.transform[e].needs_update
    /\ \E e \in DOMAIN world.fileref : ~world.transform[e].needs_update

\* C2: every step that writes Position, Rotation or Scale of an entity, or
\* changes its parent, leaves that entity's Transform (if it has one) with the
\* dirty flag set.
SpatialWritten(e) ==
    \/ \E k \in {"position", "rotation", "scale"} :
          /\ Has(world', k, e)
          /\ (~Has(world, k, e) \/ world'[k][e] # world[k][e])
    \/ /\ e \in DOMAIN world'.parent
       /\ (e \notin DOMAIN world.parent \/ world'.parent[e] # world.parent[e])

C2_WritesLeaveDirty ==
    [][\A e \in DOMAIN world'.transform :
          SpatialWritten(e) => world'.transform[e].needs_update]_vars

C2_Witness ==
    /\ pc = "frame"
    /\ \E e \in DOMAIN world.isa :
          /\ world.position[e] = Vec3(10, 10, 0)
          /\ world.transform[e].needs_update
    /\ \E e \in DOMAIN world.parent :
          /\ Has(world, "fileref", e)
          /\ world.transform[e].needs_update

\* C3 (as claimed): after TransformSystem, the world matrix of a child whose
\* parent has a Transform is the parent's world matrix composed with the
\* child's local matrix, and world = local for the other entities.
C3_WorldComposesThroughParent ==
    (pc = "frame" /\ "TransformSystem" \in ran) =>
        \A c \in Matched(world, TransformQuery) :
            LET t == world.transform[c]
            IN  IF c \in DOMAIN world.parent /\ Has(world, "transform", world.parent[c])
                THEN t.world_matrix =
                        MatrixMultiply(t.local_matrix,
                            world.transform[world.parent[c]].world_matrix)
                ELSE t.world_matrix = t.local_matrix

\* C4 (as claimed): after an accepted press whose ray intersects exactly one
\* bounding sphere, the focused entity is the intersected entity.
C4_FocusIsTheHitEntity ==
    (PressAccepted /\ MatchedClean /\ Cardinality(Hits(world, input.ray)) = 1) =>
        Editor.focused_entity \in Hits(world, input.ray)

\* C5 (as claimed): a PickingSystem run on an accepted press whose ray
\* intersects no bounding sphere changes neither the focused entity, nor any
\* Selection, nor the set of entities.
C5_NoHitNoChange ==
    [][(/\ pc = "frame"
        /\ "PickingSystem" \notin ran
        /\ "PickingSystem" \in ran'
        /\ input.left_pressed
        /\ SingletonsPresent(world)
        /\ Editor.current_mode = 0
        /\ Hits(world, input.ray) = {})
       => (/\ world'.editor = world.editor
           /\ world'.selected = world.selected
           /\ world'.alive = world.alive)]_vars

\* C6 (as claimed): after an accepted press the focused entity is exactly the
\* one entity whose Selection is active.
C6_FocusedIsTheSelected ==
    PressAccepted => ActiveSelected = {Editor.focused_entity}

NonEmptyLines(lines) == {i \in 0..(Len(lines) - 1) : lines[i + 1] # <<>>}

\* the line phantoms of a container that carry a given line number
PhantomsOfLine(w, container, i) ==
    {p \in Children(w, container) : w.fileref[p].line_number = i}

\* C8 (as claimed): a loaded file has exactly one child phantom per non-empty
\* line and none per empty line; the phantom of the line at index i carries
\* line_number i and sits at (start.x, start.y - i * 1.5, start.z).
C8_OnePhantomPerLine ==
    \A c \in Containers(world) :
        LET lines == fs[world.name[c]].lines
            start == world.position[c]
        IN  /\ Cardinality(Children(world, c)) = Cardinality(NonEmptyLines(lines))
            /\ \A i \in 0..(Len(lines) - 1) :
                  IF lines[i + 1] = <<>>
                  THEN PhantomsOfLine(world, c, i) = {}
                  ELSE /\ Cardinality(PhantomsOfLine(world, c, i)) = 1
                       /\ \A p \in PhantomsOfLine(world, c, i) :
                             world.position[p] =
                                 Vec3(start.x, start.y - i * LineSpacing, start.z)

\* a step that is a LoadFileAsPhantoms call on a path that cannot be opened
FailedLoadStep ==
    /\ pc = "ingest"
    /\ world' # world
    /\ world'.name[world.next] \notin Files

\* the step added the entity world.next and touched nothing else
OnlyOneEntityAdded ==
    /\ world'.alive = world.alive \cup {world.next}
    /\ world'.next = world.next + 1
    /\ world.next \notin DOMAIN world'.parent
    /\ world.next \notin DOMAIN world'.fileref
    /\ Children(world', world.next) = {}
    /\ \A k \in DOMAIN world \ {"alive", "next"} :
          IF k \in {"prefab", "visible", "needs_reload", "pairs"}
          THEN world'[k] = world[k]
          ELSE /\ DOMAIN world'[k] \subseteq DOMAIN world[k] \cup {world.next}
               /\ \A e \in DOMAIN world[k] :
                     e \in DOMAIN world'[k] /\ world'[k][e] = world[k][e]

\* C9 (as claimed): a load of a path that cannot be opened adds exactly one
\* entity and leaves the rest of the store unchanged, and the TextContent of
\* every such placeholder contains the full path.
C9_PlaceholderNamesFullPath ==
    /\ [][FailedLoadStep => OnlyOneEntityAdded]_vars
    /\ [](\A e \in Placeholders(world) :
             Contains(world.text[e].text, world.name[e]))

\* C9 (amended): a load of a path that cannot be opened adds exactly one
\* entity and leaves the rest of the store unchanged; the placeholder's
\* TextContent is "FILE NOT FOUND: " followed by the path, cut to the 255
\* characters the text buffer holds, so it contains the full path exactly
\* when the path has at most 239 characters.
C9_PlaceholderNamesPathUpToCapacity ==
    /\ [][FailedLoadStep => OnlyOneEntityAdded]_vars
    /\ [](\A e \in Placeholders(world) :
             /\ world.text[e].text = Take(sFileNotFound \o world.name[e], TextCap - 1)
             /\ Contains(world.text[e].text, world.name[e])
                    <=> Len(world.name[e]) <= TextCap - 1 - Len(sFileNotFound))

C9_Witness ==
    /\ pc = "ingest"
    /\ \E e \in Placeholders(world) :
          e > 1 /\ Len(world.name[e]) = 2
    /\ \E e \in Placeholders(world) :
          Len(world.name[e]) = TextCap - 16

\* C10 (as claimed): from some frame onward every placeholder of a failed load
\* belongs to the renderer's visibility query.
C10_PlaceholderBecomesVisible ==
    <>[](\A e \in Placeholders(world) : e \in RenderQuery)


\* a frame of a run in which ./src exists and one project file could not be
\* opened: TextRenderSystem has run and the placeholder was not drawn
C10_Witness ==
    /\ pc = "frame"
    /\ "TextRenderSystem" \in ran
    /\ Placeholders(world) # {}
    /\ \A e \in Placeholders(world) : e \notin drawn /\ e \notin RenderQuery

\* a step of the hot-reload check: HotReloadSystem runs in this frame
HotReloadStep == "HotReloadSystem" \notin ran /\ "HotReloadSystem" \in ran'

\* C11 (as claimed): a run of the hot-reload check over a file system in which
\* no file's modification time has changed leaves every
\* FileReference.last_modified as it was and tags no entity NeedsReload,
\* whatever the clock reads.
C11_UnchangedFilesLeaveReferences ==
    [][(HotReloadStep /\ \A p \in Files : fs[p].mtime = 1)
          => /\ \A e \in DOMAIN world.fileref :
                    world'.fileref[e].last_modified = world.fileref[e].last_modified
             /\ world'.needs_reload = world.needs_reload]_vars

\* the clock has moved on two seconds since the project was loaded, no file
\* has been written, and the check has stamped a reference with the clock
C11_Witness ==
    /\ "HotReloadSystem" \in ran
    /\ now = StartTime + 2
    /\ \A p \in Files : fs[p].mtime = 1
    /\ \E e \in Matched(world, {"fileref"}) :
          /\ world.fileref[e].filepath \in Files
          /\ world.fileref[e].last_modified = now

\* the live entities whose FileReference names the path p
SamePath(w, p) == {e \in Matched(w, {"fileref"}) : w.fileref[e].filepath = p}

\* the observer would find the file of e's FileReference newer than recorded
FindsNewer(w, e) ==
    /\ w.fileref[e].filepath \in DOMAIN fs
    /\ fs[w.fileref[e].filepath].mtime > w.fileref[e].last_modified

\* C12: whenever OnFileModified finds a file newer than a FileReference
\* records, it leaves tagged NeedsReload exactly the entities tagged before
\* and every entity whose FileReference has that path; and the tags a step of
\* the program adds are exactly the entities sharing the path of a
\* FileReference set in that step.
C12_SamePathEntitiesTagged ==
    /\ [](\A e \in Matched(world, {"fileref"}) :
             FindsNewer(world, e) =>
                 OnFileModified(world, e).needs_reload =
                     world.needs_reload \cup SamePath(world, world.fileref[e].filepath))
    /\ [][world'.needs_reload # world.needs_reload =>
             \E e \in DOMAIN world'.fileref \ DOMAIN world.fileref :
                 world'.needs_reload =
                     world.needs_reload \cup SamePath(world', world'.fileref[e].filepath)]_vars

\* the observer has fired on the FileReference of main.c and tagged it together
\* with the container and the line phantoms loaded from the same path
C12_Witness ==
    /\ world.needs_reload # {}
    /\ \E e \in world.needs_reload :
          /\ world.needs_reload = SamePath(world, world.fileref[e].filepath)
          /\ Cardinality(world.needs_reload) > 2
          /\ \E o \in Matched(world, {"fileref"}) : o \notin world.needs_reload

\* C13 (as claimed): whenever a project file has been written since it was
\* loaded, a later frame has every entity whose FileReference names that file
\* tagged NeedsReload.
C13_ModificationEventuallyDetected ==
    \A p \in ProjectPaths :
        (p \in Files /\ fs[p].mtime > 1)
            ~> (\A e \in SamePath(world, p) : e \in world.needs_reload)

\* a file was written after the load, its mtime is later than every reference
\* to it records, the hot-reload check has run on it and nothing is tagged
C13_Witness ==
    /\ "HotReloadSystem" \in ran
    /\ \E p \in Files :
          /\ fs[p].mtime > 1
          /\ SamePath(world, p) # {}
          /\ \A e \in SamePath(world, p) :
                /\ fs[p].mtime > world.fileref[e].last_modified
                /\ e \notin world.needs_reload

\* C14: in every step, the last_modified of every entity that has a
\* FileReference before and after the step does not decrease.
C14_LastModifiedNeverDecreases ==
    [][\A e \in DOMAIN world.fileref \cap DOMAIN world'.fileref :
           world'.fileref[e].last_modified >= world.fileref[e].last_modified]_vars

\* HotReloadSystem has stamped a reference with a later clock reading, and
\* the observer has raised the reference of main.c from 0 to the file's mtime
C14_Witness ==
    /\ now > StartTime
    /\ \E e \in Matched(world, {"fileref"}) : world.fileref[e].last_modified = now
    /\ world.needs_reload # {}

\* the files a container's FileReference can have been loaded from
LoadedFrom(w, c) == {p \in Files : Strncpy(p, PathCap) = w.fileref[c].filepath}

\* C15 (as claimed): the container of every successful load has a
\* FileReference with line_number 0 and the last_modified that the file
\* system gives as the modification time of the file it was loaded from.
C15_ContainerRecordsFileMtime ==
    \A c \in Containers(world) :
        /\ world.fileref[c].line_number = 0
        /\ \E p \in LoadedFrom(world, c) :
              world.fileref[c].last_modified = fs[p].mtime

\* a file last written at second 1 was loaded at second 2, and its container
\* records the time of the load
C15_Witness ==
    /\ pc = "ingest"
    /\ \E c \in Containers(world) :
          /\ world.fileref[c].line_number = 0
          /\ world.fileref[c].last_modified = now
          /\ \A p \in LoadedFrom(world, c) : fs[p].mtime < now
          /\ LoadedFrom(world, c) # {}

\* the world-space centre of e's bounding sphere
BoundingCentre(w, e) ==
    Vector3Transform(w.bounds[e].center_offset, w.transform[e].world_matrix)

ActiveCamera(w) == w.camera[EcsLookup(w, sMainCamera)]

\* GetCameraPosition puts the camera at c.distance from c.target, so a point
\* at least limit + c.distance from the target is at least limit from the
\* camera, and a point nearer the target than limit - c.distance is nearer
\* the camera than limit
CameraAtLeast(c, p, limit) ==
    ~Vector3LengthBelow(Vec3(c.target.x - p.x, c.target.y - p.y, c.target.z - p.z),
                        limit + c.distance)

CameraBelow(c, p, limit) ==
    /\ limit > c.distance
    /\ Vector3LengthBelow(Vec3(c.target.x - p.x, c.target.y - p.y, c.target.z - p.z),
                          limit - c.distance)

CullingStep == "CullingSystem" \notin ran /\ "CullingSystem" \in ran'

\* C19 (as claimed): once CullingSystem has run in a frame, an entity with
\* Transform and BoundingSphere whose bounding centre is nearer the camera
\* than the cutoff carries Visible and one at the cutoff or farther does not;
\* and the step leaves the Visible tag of every other entity as it was.
C19_VisibleIffNearCamera ==
    /\ []("CullingSystem" \in ran =>
             \A e \in Matched(world, CullingQuery) :
                 /\ CameraBelow(ActiveCamera(world), BoundingCentre(world, e), CullDistance)
                        => e \in world.visible
                 /\ CameraAtLeast(ActiveCamera(world), BoundingCentre(world, e), CullDistance)
                        => e \notin world.visible)
    /\ [][CullingStep =>
             \A e \in world.alive \ Matched(world, CullingQuery) :
                 e \in world'.visible <=> e \in world.visible]_vars

\* the camera has been panned away, CullingSystem has run, and an entity
\* farther from the camera than the cutoff carries Visible
C19_Witness ==
    /\ "CullingSystem" \in ran
    /\ \E e \in Matched(world, CullingQuery) :
          /\ CameraAtLeast(ActiveCamera(world), BoundingCentre(world, e), CullDistance)
          /\ e \in world.visible

\* C20: for every store, the entities carrying Visible after two runs of
\* CullingSystem in a row are those carrying it after one.
C20_CullingIdempotent ==
    CullingSystem(CullingSystem(world)).visible = CullingSystem(world).visible

\* CullingSystem has taken Visible off a phantom at or beyond the culling
\* distance and left it on a phantom of the same file within it
C20_Witness ==
    /\ pc = "cull"
    /\ world.visible = CullingSystem(world).visible
    /\ \E e \in Matched(world, CullingQuery) :
          /\ e \notin world.visible
          /\ \E o \in Matched(world, CullingQuery) :
                /\ o \in world.visible
                /\ world.parent[o] = world.parent[e]

TextRenderStep == "TextRenderSystem" \notin ran /\ "TextRenderSystem" \in ran'

\* the entities holding Transform, TextContent and Visible, templates included
HoldVisibleText(w) ==
    {e \in w.alive : Has(w, "transform", e) /\ Has(w, "text", e) /\ e \in w.visible}

\* C21: the entities TextRenderSystem draws in a frame are exactly those
\* holding Transform, TextContent and Visible when it runs.
C21_DrawsExactlyVisibleText ==
    [][TextRenderStep => drawn' = HoldVisibleText(world)]_vars

\* TextRenderSystem has drawn some entities and passed over a placeholder or
\* container that has Transform and TextContent but no Visible tag
C21_Witness ==
    /\ "TextRenderSystem" \in ran
    /\ drawn # {}
    /\ drawn = HoldVisibleText(world)
    /\ \E e \in Matched(world, {"transform", "text"}) :
          e \notin world.visible /\ e \notin drawn

\* the phantom texts recorded in container c for the line at index i
TextsOfLine(w, c, i) == {w.text[p].text : p \in PhantomsOfLine(w, c, i)}

\* C22 (as claimed): a line of more than 255 characters yields exactly one
\* phantom, carrying that line's index and its first 255 characters, and the
\* line after it is numbered one higher; a path of more than 511 characters
\* is stored in the FileReference as its first 511 characters.
C22_LongTextIsCutNotSplit ==
    \A c \in Containers(world) :
        LET lines == fs[world.name[c]].lines
        IN  /\ world.fileref[c].filepath = Take(world.name[c], PathCap - 1)
            /\ \A i \in 0..(Len(lines) - 1) :
                  Len(lines[i + 1]) >= TextCap =>
                      /\ Cardinality(PhantomsOfLine(world, c, i)) = 1
                      /\ TextsOfLine(world, c, i) = {Take(lines[i + 1], TextCap - 1)}
                      /\ (i + 2 <= Len(lines) /\ lines[i + 2] # <<>>) =>
                             TextsOfLine(world, c, i + 1) =
                                 {Take(lines[i + 2], TextCap - 1)}

\* a line of 1023 characters followed by a non-empty line has been loaded: the
\* long line gave one phantom of 255 characters and the next line is numbered
\* two higher
C22_Witness ==
    /\ pc = "ingest"
    /\ \E c \in Containers(world) :
          LET lines == fs[world.name[c]].lines
          IN  /\ Len(lines) >= 2
              /\ Len(lines[1]) = LineBufferSize - 1
              /\ lines[2] # <<>>
              /\ TextsOfLine(world, c, 0) = {Take(lines[1], TextCap - 1)}
              /\ TextsOfLine(world, c, 1) = {}
              /\ TextsOfLine(world, c, 2) = {Take(lines[2], TextCap - 1)}

FunctionPrefab == EcsLookup(world, sFunctionPrefab)

FunctionInstances ==
    {e \in DOMAIN world.isa : world.isa[e] = FunctionPrefab}

\* the position main passes to CreateFunctionInstance for the instance named n
PositionGiven(n) ==
    CASE n = sInitEditor -> Vec3(10, 10, 0)
      [] n = sUpdateCamera -> Vec3(-10, 10, 0)
      [] OTHER -> Vec3(0, -10, 0)

\* C23: once the instances are created, each function instance has the
\* Position and the TextContent it was created with and the prefab's
\* Rotation, Scale and BoundingSphere, whatever was set on the instances
\* created after it; and the prefab keeps the values CreatePrefabs gave it.
C23_InstanceCopiesAndOverridesLocally ==
    pc = "frame" =>
        /\ Cardinality(FunctionInstances) = 3
        /\ world.position[FunctionPrefab] = Vec3(0, 0, 0)
        /\ world.text[FunctionPrefab] = Text(sFunctionText, 15, "GREEN")
        /\ \A e \in FunctionInstances :
              /\ world.position[e] = PositionGiven(world.name[e])
              /\ world.text[e] = Text(Strncpy(world.name[e], TextCap), 15, "GREEN")
              /\ Has(world, "rotation", e) /\ Has(world, "scale", e)
              /\ Has(world, "bounds", e)
              /\ world.rotation[e] = world.rotation[FunctionPrefab]
              /\ world.scale[e] = world.scale[FunctionPrefab]
              /\ world.bounds[e] = world.bounds[FunctionPrefab]

\* the three instances exist, at three different positions, none of them the
\* prefab's, and TransformSystem has written their transforms
C23_Witness ==
    /\ pc = "frame"
    /\ "TransformSystem" \in ran
    /\ Cardinality({world.position[e] : e \in FunctionInstances}) = 3
    /\ \A e \in FunctionInstances :
          /\ world.position[e] # world.position[FunctionPrefab]
          /\ world.text[e] # world.text[FunctionPrefab]
          /\ ~world.transform[e].needs_update

PickingStep == "PickingSystem" \notin ran /\ "PickingSystem" \in ran'

\* EditorState.focused_entity, 0 while there is no Editor singleton
Focused(w) ==
    IF SingletonsPresent(w) THEN w.editor[EcsLookup(w, sEditor)].focused_entity ELSE 0

\* C26: focused_entity changes only in a PickingSystem step taken with a
\* pointer press while current_mode is 0 at that moment; with mode 1 or 2 at
\* that moment, or without a press, every step of the frame leaves it as it was.
C26_PressAcceptedOnlyInNavigation ==
    [][Focused(world') # Focused(world) =>
           /\ PickingStep
           /\ input.left_pressed
           /\ Editor.current_mode = 0]_vars

\* Tab and a pointer press arrive in the same frame in navigation mode:
\* InputSystem has switched to mode 1 and PickingSystem has let the press pass
C26_Witness ==
    /\ pc = "frame"
    /\ "PickingSystem" \in ran
    /\ input.left_pressed /\ input.tab
    /\ Editor.current_mode = 1 /\ Editor.previous_mode = 0
    /\ Editor.focused_entity = 0
    /\ Picked(world) = {}

\* C27 (as claimed): a PickingSystem step leaves the set of entities as it
\* was, and the focused entity after it is 0 or an entity that existed before
\* the step and holds Transform and BoundingSphere.
C27_PickingCreatesNoEntity ==
    [][PickingStep =>
           /\ world'.alive = world.alive
           /\ \/ Focused(world') = 0
              \/ /\ Focused(world') \in world.alive
                 /\ Has(world', "transform", Focused(world'))
                 /\ Has(world', "bounds", Focused(world'))]_vars

\* after an accepted press the focused entity is one PickingSystem created:
\* it has no name, no parent and no component
C27_Witness ==
    /\ PressAccepted
    /\ Editor.focused_entity \in Picked(world)
    /\ ~Has(world, "transform", Editor.focused_entity)

InputStep == "InputSystem" \notin ran /\ "InputSystem" \in ran'

TabInput == [NoInput EXCEPT !.tab = TRUE]

\* current_mode after InputSystem has handled n further Tab presses
RECURSIVE ModeAfterTabs(_, _)
ModeAfterTabs(w, n) ==
    IF n = 0 THEN w.editor[EcsLookup(w, sEditor)].current_mode
    ELSE ModeAfterTabs(InputSystem(w, TabInput), n - 1)

\* C28: an InputSystem step with Tab pressed sets previous_mode to the mode
\* before it, current_mode to that mode plus one modulo 3 and raises
\* mode_transition; every other step leaves current_mode and previous_mode as
\* they were; and three Tab presses in a row bring current_mode back.
C28_TabCyclesMode ==
    /\ [][SingletonsPresent(world) =>
             IF InputStep /\ input.tab
             THEN /\ Editor'.previous_mode = Editor.current_mode
                  /\ Editor'.current_mode = (Editor.current_mode + 1) % 3
                  /\ Editor'.mode_transition
             ELSE /\ Editor'.previous_mode = Editor.previous_mode
                  /\ Editor'.current_mode = Editor.current_mode]_vars
    /\ [](SingletonsPresent(world) =>
             ModeAfterTabs(world, 3) = Editor.current_mode)

\* the third Tab press in a row has been handled: the mode is back at 0,
\* coming from 2
C28_Witness ==
    /\ pc = "frame"
    /\ "InputSystem" \in ran
    /\ input.tab
    /\ Editor.current_mode = 0
    /\ Editor.previous_mode = 2
    /\ Editor.mode_transition

\* C29: the editor's current_mode and previous_mode are always 0, 1 or 2,
\* the indices of the three-element mode_names and mode_colors arrays.
C29_ModesInRange ==
    SingletonsPresent(world) =>
        /\ Editor.current_mode \in 0..2
        /\ Editor.previous_mode \in 0..2

\* the frame's drawing step is about to index the arrays with the last mode
C29_Witness ==
    /\ pc = "frame"
    /\ ran = Systems
    /\ Editor.current_mode = 2
    /\ Editor.previous_mode = 1

\* the drawing half of a frame, which shows "MODE SWITCHED!" when
\* mode_transition is set as it starts
DrawStep == pc = "frame" /\ ran = Systems /\ ran' = {}

\* C30: mode_transition is raised only by an InputSystem step with Tab
\* pressed, it is false whenever a frame starts, and a frame's drawing step
\* shows the feedback exactly when Tab was pressed in that frame.
C30_TransitionLastsOneFrame ==
    /\ [][(SingletonsPresent(world) /\ ~Editor.mode_transition /\ Editor'.mode_transition)
             => (InputStep /\ input.tab)]_vars
    /\ []((pc = "frame" /\ ran = {}) => ~Editor.mode_transition)
    /\ [][DrawStep => (Editor.mode_transition <=> input.tab)]_vars

\* the systems of a frame with Tab pressed have run and the drawing step is
\* about to show the feedback for the second mode switch in a row
C30_Witness ==
    /\ pc = "frame"
    /\ ran = Systems
    /\ input.tab
    /\ Editor.mode_transition
    /\ Editor.current_mode = 2

\* the CameraController main creates
InitialCamera ==
    [target |-> Vec3(0, 0, 0), distance |-> 40, pitch |-> 60, yaw |-> 90,
     move_speed |-> 20, rotation_speed |-> 1, mode |-> 0]

\* C31: the camera controller changes only in an InputSystem step that starts
\* with the editor in navigation mode; with mode 1 or 2 at the start of
\* InputSystem no step of the frame changes any camera field.
C31_CameraMovesOnlyInNavigation ==
    [][(SingletonsPresent(world) /\ ActiveCamera(world') # ActiveCamera(world))
          => (InputStep /\ Editor.current_mode = 0)]_vars

\* InputSystem has run on a drag with the editor in edit mode and the camera
\* is still as main created it
C31_Witness ==
    /\ pc = "frame"
    /\ "InputSystem" \in ran
    /\ input.left_down /\ input.delta # <<0, 0>>
    /\ ~input.tab
    /\ Editor.current_mode = 1
    /\ ActiveCamera(world) = InitialCamera

\* C32: the camera distance is always within [1, 100] and the pitch within
\* [-89, 89] degrees (distances in halves, angles in half degrees).
C32_CameraWithinLimits ==
    SingletonsPresent(world) =>
        /\ ActiveCamera(world).distance \in 2..200
        /\ ActiveCamera(world).pitch \in -178..178

\* a drag and a wheel movement larger than the limits allow have been
\* handled: the pitch and the distance both sit on a limit
C32_Witness ==
    /\ pc = "frame"
    /\ "InputSystem" \in ran
    /\ ActiveCamera(world).pitch \in {-178, 178}
    /\ ActiveCamera(world).distance \in {2, 200}

\* C33: an InputSystem or PickingSystem step on a store in which the Editor
\* or MainCamera entity is missing, or lacks its EditorState or
\* CameraController, leaves the whole store as it was.
C33_MissingSingletonsChangeNothing ==
    [][((InputStep \/ PickingStep) /\ ~SingletonsPresent(world))
          => world' = world]_vars

\* both systems have run on a press with Tab, drag and wheel while the Editor
\* entity had a name but no EditorState; nothing is focused, no entity was
\* added, and the loaded phantoms have since been transformed
C33_Witness ==
    /\ pc = "cull"
    /\ {"InputSystem", "PickingSystem"} \subseteq ran
    /\ input.left_pressed /\ input.tab
    /\ EcsLookup(world, sEditor) # 0
    /\ ~Has(world, "editor", EcsLookup(world, sEditor))
    /\ ActiveCamera(world) = InitialCamera
    /\ Picked(world) = {}
    /\ \E e \in Matched(world, TransformQuery) : ~world.transform[e].needs_update

\* C34: whenever CullingSystem or TextRenderSystem runs, every entity it
\* matches (Transform and BoundingSphere for the one, Transform, TextContent
\* and Visible for the other) has a clear Transform dirty flag, the entities
\* ingested or instantiated before the first frame included.
C34_ReadersSeeCleanTransforms ==
    [][/\ CullingStep =>
            \A e \in Matched(world, CullingQuery) : ~world.transform[e].needs_update
       /\ TextRenderStep =>
            \A e \in TextRenderSystem(world) : ~world.transform[e].needs_update]_vars

\* a frame in which CullingSystem has matched a prefab instance and a line
\* phantom of an ingested file, and TextRenderSystem has drawn such a phantom
C34_Witness ==
    /\ pc = "frame"
    /\ {"CullingSystem", "TextRenderSystem"} \subseteq ran
    /\ \E e \in Matched(world, CullingQuery) : e \in DOMAIN world.isa
    /\ \E f \in Containers(world) :
          \E e \in Children(world, f) :
              /\ e \in Matched(world, CullingQuery)
              /\ e \in drawn
              /\ ~world.transform[e].needs_update

\* C35: a TransformSystem pass over any store leaves the Transform (both
\* matrices and the dirty flag) of every entity whose flag is clear as it
\* was, and leaves Position, Rotation and Scale of every entity as they were.
C35_TransformKeepsCleanAndSpatial ==
    LET after == TransformSystem(world)
    IN  /\ \A e \in DOMAIN world.transform :
              ~world.transform[e].needs_update
                  => after.transform[e] = world.transform[e]
        /\ after.position = world.position
        /\ after.rotation = world.rotation
        /\ after.scale = world.scale

\* a store holding a phantom that an earlier pass computed, placed away from
\* the origin, next to a phantom loaded since and still dirty
C35_Witness ==
    /\ pc = "cull"
    /\ \E e \in Matched(world, TransformQuery) :
          /\ ~world.transform[e].needs_update
          /\ world.transform[e].world_matrix # MatrixZero
          /\ world.position[e] # Vec3(0, 0, 0)
    /\ \E e \in Matched(world, TransformQuery) : world.transform[e].needs_update

\* C36 (as claimed): every entity tagged NeedsReload names a file whose mtime
\* is later than it was when the entity was ingested (every file is ingested
\* with mtime 1); in particular nothing is tagged while no file has been
\* written since start-up.
C36_TaggedOnlyAfterModification ==
    \A e \in world.needs_reload :
        /\ world.fileref[e].filepath \in Files
        /\ fs[world.fileref[e].filepath].mtime > 1

\* start-up is over, no file was ever written, and the main.c entity of
\* CreateCodeHierarchy and the phantoms ingested from the same path are tagged
C36_Witness ==
    /\ pc = "frame"
    /\ \A p \in Files : fs[p].mtime = 1
    /\ \E e \in world.needs_reload : world.fileref[e].line_number > 0
    /\ \E e \in world.needs_reload : world.fileref[e].line_number = 0

\* the entities CreatePhantomFromLine has made: a parent, a FileReference and
\* a BoundingSphere
LinePhantoms(w) ==
    {e \in DOMAIN w.fileref : e \in DOMAIN w.parent /\ Has(w, "bounds", e)}

\* C37 (as claimed): every line phantom, from either loader, is a child of a
\* file entity (a named root with Position and TextContent) and sits at
\* y = file.y - line_number * 1.5, line_number taken from its FileReference.
C37_LinePhantomBelowItsFile ==
    \A e \in LinePhantoms(world) :
        LET file_entity == world.parent[e]
        IN  /\ file_entity \in Loaded(world)
            /\ Has(world, "position", file_entity)
            /\ Has(world, "text", file_entity)
            /\ world.position[e].y =
                   world.position[file_entity].y
                       - world.fileref[e].line_number * LineSpacing

\* the project directory was missing, the in-memory files were made, and the
\* phantom of the first example line, numbered 0, sits one spacing below its file
C37_Witness ==
    /\ sSrc \notin DOMAIN fs
    /\ \E e \in LinePhantoms(world) :
          /\ world.fileref[e].line_number = 0
          /\ world.position[e].y = world.position[world.parent[e]].y - LineSpacing

\* Selected as ecs_set writes it when an entity is selected or deselected
SelectedValue(is_selected) ==
    [is_selected |-> is_selected, selection_id |-> 0, selection_time |-> now]

\* the store after e is selected and then deselected
SelectThenDeselect(w, e) ==
    SetSelected(SetSelected(w, e, SelectedValue(TRUE)), e, SelectedValue(FALSE))

\* C38 (as claimed): selecting an unselected entity and deselecting it again
\* leaves its TextContent, colour and billboard flag included, as it was
\* before; on an entity without TextContent the two observer runs change
\* nothing besides the Selected value that was set.
C38_HighlightIsReversible ==
    \A e \in world.alive :
        ~Has(world, "selected", e) =>
            LET after == SelectThenDeselect(world, e)
            IN  IF Has(world, "text", e)
                THEN after.text[e] = world.text[e]
                ELSE after = Set(world, "selected", e, SelectedValue(FALSE))

\* a file container, created with a blue title, has been selected and
\* deselected and now has a white title
C38_Witness ==
    /\ pc = "cull"
    /\ \E c \in Containers(world) :
          /\ Has(world, "selected", c)
          /\ ~world.selected[c].is_selected
          /\ world.text[c].color = "WHITE"
          /\ ~world.text[c].billboard_mode

\* the FileReference of e holds a time that only HotReloadSystem can have
\* written: one later than start-up, when every load and observer run ended
LastChecked(w, e) == w.fileref[e].last_modified > StartTime

\* C39 (as claimed): a HotReloadSystem step in a frame at second t + 1 or
\* later checks every FileReference last checked at second t, writing the
\* current second into it, and leaves one last checked in the current second
\* as it is.
C39_CheckedEverySecond ==
    [][HotReloadStep =>
          \A e \in Matched(world, {"fileref"}) :
              LastChecked(world, e) =>
                  /\ now > world.fileref[e].last_modified
                         => world'.fileref[e].last_modified = now
                  /\ now = world.fileref[e].last_modified
                         => world'.fileref[e] = world.fileref[e]]_vars

\* HotReloadSystem has run in a frame one second after the frame in which it
\* checked a reference, and the reference still holds the earlier second
C39_Witness ==
    /\ pc = "frame"
    /\ "HotReloadSystem" \in ran
    /\ \E e \in Matched(world, {"fileref"}) :
          /\ LastChecked(world, e)
          /\ world.fileref[e].last_modified = now - 1
=============================================================================
